---- MODULE Spec2Model ----
(***************************************************************************)
(* Momentum-breakout trading system: screener.py (liquidity and trend       *)
(* filters), signaller.py (Riser, Consolidation, EntryTrigger,             *)
(* run_signaller), executor.py (TradeExecutor), main.py                    *)
(* (run_full_system), and the earlier versions of the screener and the     *)
(* signaller in trading_strategy.py.                                       *)
(*                                                                         *)
(* Numbers.  Prices are exact integers counted in ticks, ATR_PERIOD ticks  *)
(* to the dollar: every bar price is a whole number of dollars, so a mean  *)
(* of ATR_PERIOD true ranges is a whole number of ticks and the model's    *)
(* arithmetic is the exact arithmetic of the code's formulas.  Percentage  *)
(* tests are cross-multiplied (x / y * 100 >= c  as  x * 100 >= c * y for  *)
(* y > 0).  A pandas position is 0-based; position p is s[p + 1].  The     *)
(* date of a bar is its position; None is NoDate.  A mean over a fixed     *)
(* number of bars (the screener's 50-day averages, the trailing stop's     *)
(* SMA) is carried as the sum of its terms and compared after multiplying  *)
(* the other side by the number of bars.  Binary floating-point rounding   *)
(* is not modelled.                                                        *)
(***************************************************************************)
EXTENDS Integers, Sequences, FiniteSets, TLC

\* ---------------------------------------------------------------- config.py
\* MIN_PRICE in dollars, MIN_VOLUME in shares
MIN_PRICE == 3
MIN_VOLUME == 300000
SMA_PERIOD == 50
RISER_WINDOW == 63
RISER_MIN_INCREASE == 30
CONSOLIDATION_MIN_DAYS == 4
CONSOLIDATION_MAX_DAYS == 40
MAX_RETRACEMENT == 25
\* UPPER_BUFFER = LOWER_BUFFER = 0.01 and BREAKOUT_BUFFER = 0.02, in percent
UPPER_BUFFER_PCT == 1
LOWER_BUFFER_PCT == 1
BREAKOUT_BUFFER_PCT == 2
MAX_RISK_PERCENT == 2
ATR_PERIOD == 14
TRAILING_SMA_PERIOD == 10

\* k dollars in ticks
P(k) == k * ATR_PERIOD

\* None for a date, NaN for a float
NoDate == -1
NaN == -1

\* ------------------------------------------------------------ bounds
\* bars a series may have beyond RISER_WINDOW
MaxExtra == 1
\* ticks of the wall clock that may pass
MaxClock == 1

\* stock_data: the series the caller holds; account_equity: the equity of the
\* TradeExecutor in use; op, args, ret: the call made last, its arguments and
\* its result; clock: the wall clock datetime.now() reads; previous: what the
\* same call returned the time before, when the caller has repeated it
VARIABLES stock_data, account_equity, op, args, ret, clock, previous

vars == <<stock_data, account_equity, op, args, ret, clock, previous>>

\* ------------------------------------------------------- series helpers
High(s, p) == s[p + 1].High
Low(s, p) == s[p + 1].Low
Close(s, p) == s[p + 1].Close

Min(S) == CHOOSE x \in S : \A y \in S : x <= y
Max(S) == CHOOSE x \in S : \A y \in S : x >= y

\* the last position of the maximum instead of the first
idxmaxHigh_last(s, lo, hi) ==
    LET m == Max({High(s, p) : p \in lo..hi})
    IN Max({p \in lo..hi : High(s, p) = m})

\* Series.idxmax() of High over positions lo..hi: the first position of the
\* maximum
idxmaxHigh(s, lo, hi) ==
    LET m == Max({High(s, p) : p \in lo..hi})
    IN Min({p \in lo..hi : High(s, p) = m})

\* the bar before lo searched as well
idxminLow_from_before(s, lo, hi) ==
    LET m == Min({Low(s, p) : p \in (lo - 1)..hi})
    IN Min({p \in (lo - 1)..hi : Low(s, p) = m})

\* Series.idxmin() of Low over positions lo..hi: the first position of the
\* minimum
idxminLow(s, lo, hi) ==
    LET m == Min({Low(s, p) : p \in lo..hi})
    IN Min({p \in lo..hi : Low(s, p) = m})

\* ------------------------------------------------------------- riser
\* > instead of >=
exceeds_increase(current_price, price_ago, min_increase) ==
    (current_price - price_ago) * 100 > min_increase * price_ago

\* lines 35, 45, 48: ((current_price - price_ago) / price_ago) * 100 >= min_increase
meets_increase(current_price, price_ago, min_increase) ==
    (current_price - price_ago) * 100 >= min_increase * price_ago

riser(s, window_days, min_increase) ==
    IF Len(s) < window_days
    THEN [passed |-> FALSE, message |-> "Insufficient data",
          price_ago |-> 0, current_price |-> 0]
    ELSE LET current_price == Close(s, Len(s) - 1)
             price_ago == Close(s, Len(s) - window_days)
             ok == meets_increase(current_price, price_ago, min_increase)
         IN [passed |-> ok,
             message |-> IF ok THEN "Riser PASS" ELSE "Riser FAIL",
             price_ago |-> price_ago, current_price |-> current_price]

\* ------------------------------------------------------- consolidation
consolidation_defaults ==
    [peak_price |-> 0, peak_date |-> NoDate, days_since_peak |-> 0,
     retracement_low |-> 0, retracement_low_date |-> NoDate,
     consolidation_start_date |-> NoDate,
     consolidation_high |-> 0, consolidation_low |-> 0,
     consolidation_high_date |-> NoDate,
     range_height |-> 0,
     days_in_consolidation |-> 0, days_since_retracement |-> 0,
     closes_in_range |-> 0, total_days_in_range |-> 0,
     current_price |-> 0, breakout_level |-> 0, stop_loss_level |-> 0,
     failure_reason |-> "None"]

\* closes of positions lo..hi within [low, high]
closes_in_range_count(s, lo, hi, low, high) ==
    Cardinality({p \in lo..hi : Close(s, p) >= low /\ Close(s, p) <= high})

\* days_in_consolidation of line 150
days_in_consolidation_of(s, retracement_low_position) ==
    Len(s) - retracement_low_position

\* the range taken over the bars before the last one
consolidation_end_before_last(s, retracement_low_position) ==
    IF retracement_low_position = Len(s) - 1 THEN Len(s) - 1 ELSE Len(s) - 2

\* line 137: stock_data.iloc[retracement_low_position:] runs to the last bar
consolidation_end(s, retracement_low_position) == Len(s) - 1

\* the upper buffer subtracted instead of added
range_violations_tight(s, lo, hi, upper_high, lower_low) ==
    {p \in lo..hi : High(s, p) * 100 > upper_high * (100 - UPPER_BUFFER_PCT)
                    \/ Low(s, p) * 100 < lower_low * (100 - LOWER_BUFFER_PCT)}

\* the violations list of lines 214-227, as the set of offending positions
range_violations(s, lo, hi, upper_high, lower_low) ==
    {p \in lo..hi : High(s, p) * 100 > upper_high * (100 + UPPER_BUFFER_PCT)
                    \/ Low(s, p) * 100 < lower_low * (100 - LOWER_BUFFER_PCT)}

consolidation(s) ==
    LET n == Len(s)
        info0 == consolidation_defaults
    IN
    IF n < RISER_WINDOW
    THEN [passed |-> FALSE, message |-> "Need data",
          info |-> [info0 EXCEPT !.failure_reason = "Need data"]]
    ELSE
    LET peak_position == idxmaxHigh(s, n - RISER_WINDOW, n - 1)
        peak_price == High(s, peak_position)
        info1 == [info0 EXCEPT !.peak_price = peak_price,
                               !.peak_date = peak_position,
                               !.days_since_peak = n - peak_position - 1]
    IN
    IF n - (peak_position + 1) = 0
    THEN [passed |-> FALSE, message |-> "Peak is most recent day",
          info |-> [info1 EXCEPT !.failure_reason = "Peak is most recent day"]]
    ELSE
    LET retracement_low_position == idxminLow(s, peak_position + 1, n - 1)
        retracement_low == Low(s, retracement_low_position)
        info2 == [info1 EXCEPT !.retracement_low = retracement_low,
                               !.retracement_low_date = retracement_low_position,
                               !.days_since_retracement = n - retracement_low_position - 1]
    IN
    IF (peak_price - retracement_low) * 100 >= MAX_RETRACEMENT * peak_price
    THEN [passed |-> FALSE, message |-> "Retracement",
          info |-> [info2 EXCEPT !.failure_reason = "Retracement"]]
    ELSE
    LET days_in_consolidation == days_in_consolidation_of(s, retracement_low_position)
        consolidation_high_date ==
            idxmaxHigh(s, retracement_low_position,
                       consolidation_end(s, retracement_low_position))
        consolidation_high == High(s, consolidation_high_date)
        consolidation_low == retracement_low
        info3 == [info2 EXCEPT
                    !.consolidation_start_date = retracement_low_position,
                    !.days_in_consolidation = IF days_in_consolidation > 0
                                              THEN days_in_consolidation ELSE 0,
                    !.consolidation_high = consolidation_high,
                    !.consolidation_high_date = consolidation_high_date,
                    !.consolidation_low = consolidation_low,
                    !.range_height = IF consolidation_high > consolidation_low
                                     THEN consolidation_high - consolidation_low ELSE 0,
                    !.breakout_level = consolidation_high,
                    !.stop_loss_level = consolidation_low,
                    !.closes_in_range = closes_in_range_count(s, retracement_low_position,
                                            n - 1, consolidation_low, consolidation_high),
                    !.total_days_in_range = n - retracement_low_position]
        violations == range_violations(s, retracement_low_position, n - 1,
                                       consolidation_high, consolidation_low)
    IN
    IF days_in_consolidation < CONSOLIDATION_MIN_DAYS
    THEN [passed |-> FALSE, message |-> "Only few days since retracement",
          info |-> [info3 EXCEPT !.failure_reason = "Only few days since retracement"]]
    ELSE IF days_in_consolidation > CONSOLIDATION_MAX_DAYS
    THEN [passed |-> FALSE, message |-> "Days > max",
          info |-> [info3 EXCEPT !.failure_reason = "Days > max"]]
    ELSE IF violations # {}
    THEN [passed |-> FALSE, message |-> "Range violations",
          info |-> [info3 EXCEPT !.failure_reason = "Range violations"]]
    ELSE IF info3.closes_in_range * 100 < 70 * info3.total_days_in_range
    THEN [passed |-> FALSE, message |-> "Closes within range",
          info |-> [info3 EXCEPT !.failure_reason = "Closes within range"]]
    ELSE [passed |-> TRUE, message |-> "Consolidation PASS",
          info |-> [info3 EXCEPT !.current_price = Close(s, n - 1)]]

\* a Python dict with no entries (falsy), and dict.get(key, default)
EmptyDict == [empty |-> TRUE]
IsEmpty(d) == "empty" \in DOMAIN d
get(d, key, default) == IF key \in DOMAIN d THEN d[key] ELSE default

\* ------------------------------------------------------ entry_trigger
\* >= instead of >
breakout_reached(current_high, breakout_level) ==
    current_high * 100 >= breakout_level * (100 + BREAKOUT_BUFFER_PCT)

\* line 277: current_high > breakout_level * (1 + BREAKOUT_BUFFER)
breakout_fires(current_high, breakout_level) ==
    current_high * 100 > breakout_level * (100 + BREAKOUT_BUFFER_PCT)

entry_trigger(s, consolidation_info) ==
    IF IsEmpty(consolidation_info)
    THEN [triggered |-> FALSE, message |-> "No consolidation data",
          entry_price |-> 0, entry_details |-> EmptyDict]
    ELSE
    LET breakout_level == get(consolidation_info, "breakout_level", 0)
        stop_loss_level == get(consolidation_info, "stop_loss_level", 0)
        current_price == Close(s, Len(s) - 1)
        current_high == High(s, Len(s) - 1)
    IN
    IF breakout_level <= 0 \/ stop_loss_level <= 0
    THEN [triggered |-> FALSE, message |-> "Invalid consolidation levels",
          entry_price |-> 0, entry_details |-> EmptyDict]
    ELSE IF breakout_fires(current_high, breakout_level)
    THEN [triggered |-> TRUE, message |-> "BUY",
          entry_price |-> current_price,
          entry_details |->
             [entry_price |-> current_price,
              entry_date |-> Len(s) - 1,
              breakout_level |-> breakout_level,
              stop_loss_level |-> stop_loss_level,
              risk_per_share |-> current_price - stop_loss_level,
              original_peak |-> get(consolidation_info, "peak_price", breakout_level)]]
    ELSE [triggered |-> FALSE, message |-> "HOLD",
          entry_price |-> current_price,
          entry_details |->
             [current_price |-> current_price,
              current_high |-> current_high,
              breakout_level |-> breakout_level,
              distance_to_breakout |-> breakout_level - current_price,
              stop_loss_level |-> stop_loss_level]]

\* ------------------------------------------------------ run_signaller
None == [none |-> TRUE]

\* the failed consolidation reported as a HOLD
consolidation_fail_as_hold(results) ==
    [results EXCEPT !.signal = "HOLD", !.action = "MONITOR"]

\* the failed consolidation's message dropped
consolidation_fail_unrecorded(results) ==
    [results EXCEPT !.signal = "CONSOLIDATION_FAIL",
                    !.messages = SubSeq(@, 1, Len(@) - 1)]

\* lines 363-365: the result returned when the consolidation stage fails
consolidation_fail_result(results) ==
    [results EXCEPT !.signal = "CONSOLIDATION_FAIL"]

run_signaller(s) ==
    LET results0 == [analysis_date |-> Len(s) - 1,
                     current_price |-> Close(s, Len(s) - 1),
                     data_days |-> Len(s),
                     riser_passed |-> FALSE,
                     consolidation_passed |-> FALSE,
                     entry_triggered |-> FALSE,
                     riser_info |-> None,
                     consolidation_info |-> None,
                     entry_details |-> None,
                     messages |-> <<>>,
                     signal |-> "NO_SIGNAL",
                     action |-> "HOLD"]
        r == riser(s, RISER_WINDOW, RISER_MIN_INCREASE)
        results1 == [results0 EXCEPT
                       !.riser_passed = r.passed,
                       !.riser_info = [price_ago |-> r.price_ago,
                                       current_price |-> r.current_price,
                                       passed |-> r.passed],
                       !.messages = Append(@, <<"RISER", r.message>>)]
    IN
    IF ~r.passed THEN [results1 EXCEPT !.signal = "RISER_FAIL"]
    ELSE
    LET c == consolidation(s)
        results2 == [results1 EXCEPT
                       !.consolidation_passed = c.passed,
                       !.messages = Append(@, <<"CONSOLIDATION", c.message>>),
                       !.consolidation_info = c.info]
    IN
    IF ~c.passed THEN consolidation_fail_result(results2)
    ELSE
    LET e == entry_trigger(s, c.info)
        results3 == [results2 EXCEPT
                       !.entry_triggered = e.triggered,
                       !.entry_details = e.entry_details,
                       !.messages = Append(@, <<"ENTRY", e.message>>)]
    IN
    IF e.triggered
    THEN [results3 EXCEPT !.signal = "BUY", !.action = "BUY"]
    ELSE [results3 EXCEPT !.signal = "HOLD", !.action = "MONITOR"]

\* ============================================================ executor.py
Abs(x) == IF x < 0 THEN -x ELSE x
Max2(a, b) == IF a > b THEN a ELSE b
index(s) == 0 .. (Len(s) - 1)

RECURSIVE SumOver(_, _, _)
\* sum of f[p] for p in lo..hi
SumOver(f, lo, hi) == IF lo > hi THEN 0 ELSE f[lo] + SumOver(f, lo + 1, hi)

\* __init__: max_risk_amount = account_equity * (max_risk_percent / 100)
max_risk_amount_of(equity) == (equity * MAX_RISK_PERCENT) \div 100

\* ---------------------------------------------- calculate_position_size
\* rounding up instead of down
shares_rounded_up(max_risk_amount, risk_per_share) ==
    (max_risk_amount + risk_per_share - 1) \div risk_per_share

\* line 42: shares = int(max_risk_amount / risk_per_share)
shares_of(max_risk_amount, risk_per_share) == max_risk_amount \div risk_per_share

\* an exception that leaves the function
Raise(e) == [raised |-> e]

\* < instead of <=
risk_negative(entry_price, stop_loss_price) == entry_price < stop_loss_price

\* line 37: entry_price <= stop_loss_price
risk_missing(entry_price, stop_loss_price) == entry_price <= stop_loss_price

\* Line 41 divides Python floats outside any try block: a zero divisor
\* raises ZeroDivisionError.
calculate_position_size(equity, entry_price, stop_loss_price) ==
    IF risk_missing(entry_price, stop_loss_price)
    THEN [error |-> "Entry must be > stop loss"]
    ELSE LET risk_per_share == entry_price - stop_loss_price
             shares == shares_of(max_risk_amount_of(equity), risk_per_share)
         IN IF risk_per_share = 0 THEN Raise("ZeroDivisionError")
            ELSE
            [shares |-> shares,
             entry_price |-> entry_price,
             stop_loss |-> stop_loss_price,
             risk_per_share |-> risk_per_share,
             position_value |-> shares * entry_price,
             risk_amount |-> shares * risk_per_share,
             max_risk_allowed |-> max_risk_amount_of(equity)]

\* -------------------------------------------------------- calculate_atr
\* Low - High as the true range of every bar
true_range_low_minus_high(s) ==
    [p \in 0 .. (Len(s) - 1) |-> Low(s, p) - High(s, p)]

\* lines 65-69: DataFrame.max(axis=1) skips the NaN that shift(1) leaves at
\* position 0, so the true range of bar 0 is High - Low
true_range(s) ==
    [p \in index(s) |->
        IF p = 0 THEN High(s, 0) - Low(s, 0)
        ELSE Max2(High(s, p) - Low(s, p),
                  Max2(Abs(High(s, p) - Close(s, p - 1)),
                       Abs(Low(s, p) - Close(s, p - 1))))]

\* line 70: rolling(window=period).mean() is NaN until period values exist
calculate_atr(s, period) ==
    LET tr == true_range(s)
    IN [p \in index(s) |->
          IF p < period - 1 THEN NaN
          ELSE SumOver(tr, p - period + 1, p) \div period]

\* ---------------------------------------------------- calculate_stop_loss
\* line 90: the ATR the constraint uses
current_atr_of(s, atr, entry_date) ==
    IF entry_date \in index(s) THEN atr[entry_date] ELSE atr[Len(s) - 1]

\* >= instead of >
reaches_atr(stop_distance, current_atr) ==
    current_atr # NaN /\ stop_distance >= current_atr

\* line 100: stop_distance > current_atr (False when current_atr is NaN)
exceeds_atr(stop_distance, current_atr) ==
    current_atr # NaN /\ stop_distance > current_atr

calculate_stop_loss(s, atr_period, entry_price, entry_date) ==
    IF entry_date \notin index(s)
    THEN [error |-> "Stop loss calculation failed: KeyError"]
    ELSE
    LET low_of_day == Low(s, entry_date)
        current_atr == current_atr_of(s, calculate_atr(s, atr_period), entry_date)
        stop_distance == entry_price - low_of_day
        adjusted == exceeds_atr(stop_distance, current_atr)
        stop_price == IF adjusted THEN entry_price - current_atr ELSE low_of_day
    IN
    \* line 119: (entry_price - stop_price) / current_atr on Python floats
    IF current_atr = 0
    THEN [error |-> "Stop loss calculation failed: float division by zero"]
    ELSE [stop_loss_price |-> stop_price,
          stop_loss_type |-> IF adjusted THEN "ATR_ADJUSTED" ELSE "LOW_OF_DAY",
          low_of_day |-> low_of_day,
          atr_14 |-> current_atr,
          stop_distance |-> entry_price - stop_price,
          stop_adjusted |-> adjusted,
          adjustment_reason |-> IF adjusted THEN "Stop > ATR" ELSE "None"]

\* ------------------------------------------------ calculate_trailing_stop
\* sum of the sma_period closes of the post-entry segment ending at position p
sma_sum(s, sma_period, p) ==
    SumOver([q \in index(s) |-> Close(s, q)], p - sma_period + 1, p)

\* the scan stopping before the last bar
crossings_before_last(s, entry_idx, sma_period) ==
    {p \in (entry_idx + sma_period - 1) .. (Len(s) - 2) :
        Close(s, p) * sma_period < sma_sum(s, sma_period, p)}

\* lines 155-176: positions of the scanned bars whose close is below the SMA
crossings(s, entry_idx, sma_period) ==
    {p \in (entry_idx + sma_period - 1) .. (Len(s) - 1) :
        Close(s, p) * sma_period < sma_sum(s, sma_period, p)}

\* the last crossing instead of the first
exit_signals_last(s, entry_idx, sma_period, entry_price) ==
    LET X == crossings(s, entry_idx, sma_period)
    IN IF X = {} THEN <<>>
       ELSE LET p == Max(X)
            IN << [exit_date |-> p,
                   exit_price |-> Close(s, p),
                   sma_sum |-> sma_sum(s, sma_period, p),
                   days_held |-> (p - entry_idx) + 1,
                   profit_loss |-> Close(s, p) - entry_price] >>

\* the exit_signals list: the loop breaks at the first crossing
exit_signals_of(s, entry_idx, sma_period, entry_price) ==
    LET X == crossings(s, entry_idx, sma_period)
    IN IF X = {} THEN <<>>
       ELSE LET p == Min(X)
            IN << [exit_date |-> p,
                   exit_price |-> Close(s, p),
                   sma_sum |-> sma_sum(s, sma_period, p),
                   days_held |-> (p - entry_idx) + 1,
                   profit_loss |-> Close(s, p) - entry_price] >>

\* the whole series counted
all_bars(s, entry_idx) == Len(s)

\* line 138: len(data_from_entry), the bars from the entry bar on
post_entry_bars(s, entry_idx) == Len(s) - entry_idx

calculate_trailing_stop(s, entry_price, entry_date, sma_period) ==
    IF entry_date \notin index(s)
    THEN [error |-> "Entry date not in data"]
    ELSE
    LET entry_idx == entry_date
        n == Len(s)
    IN
    IF post_entry_bars(s, entry_idx) < sma_period
    THEN [error |-> "Need days post-entry"]
    ELSE
    LET current_sum == sma_sum(s, sma_period, n - 1)
        current_price == Close(s, n - 1)
        exit_signals == exit_signals_of(s, entry_idx, sma_period, entry_price)
    IN
    \* line 174 divides by entry_price, line 183 by current_price
    IF (exit_signals # <<>> /\ entry_price = 0) \/ current_price = 0
    THEN [error |-> "Trailing stop calculation failed: float division by zero"]
    ELSE [current_price |-> current_price,
          current_sma_sum |-> current_sum,
          price_below_sma |-> current_price * sma_period < current_sum,
          should_exit_now |-> current_price * sma_period < current_sum,
          exit_signals |-> exit_signals,
          days_since_entry |-> (n - entry_idx) - 1]

\* -------------------------------------------------- calculate_risk_reward
calculate_risk_reward(entry_price, stop_price, consolidation_info) ==
    IF IsEmpty(consolidation_info)
    THEN [error |-> "No consolidation data"]
    ELSE
    LET consolidation_high == get(consolidation_info, "consolidation_high", 0)
        consolidation_low == get(consolidation_info, "consolidation_low", 0)
        risk_per_share == entry_price - stop_price
        range_height == consolidation_high - consolidation_low
        target_1 == consolidation_high + range_height
        original_peak == get(consolidation_info, "peak_price", 0)
    IN
    IF consolidation_high <= consolidation_low
    THEN [error |-> "Invalid consolidation range"]
    ELSE IF risk_per_share <= 0
    THEN [error |-> "Invalid risk"]
    ELSE [risk_per_share |-> risk_per_share,
          target_1 |-> target_1,
          reward_1 |-> target_1 - entry_price,
          target_2 |-> original_peak,
          reward_2 |-> IF original_peak > consolidation_high
                       THEN original_peak - entry_price ELSE 0,
          range_height |-> range_height]

\* ---------------------------------------------------------- execute_trade
\* the status set, the error text not recorded
stop_loss_error_plan_no_text(trade_plan, stop_details) ==
    [trade_plan EXCEPT !.status = "STOP_LOSS_ERROR"]

\* lines 271-274: the plan returned on a stop-loss error
stop_loss_error_plan(trade_plan, stop_details) ==
    [trade_plan EXCEPT !.status = "STOP_LOSS_ERROR",
                       !.errors = Append(@, stop_details.error)]

\* lines 288-291: the plan returned on a position-sizing error
position_error_plan(trade_plan, position) ==
    [trade_plan EXCEPT !.status = "POSITION_ERROR",
                       !.errors = Append(@, position.error)]

\* The plan is the dict the method returns; calls is the sequence of the
\* executor methods it invoked on the way, in order.
\* now is what datetime.now() returns at line 252.
execute_trade(s, equity, atr_period, entry_details, consolidation_info, now) ==
    LET trade_plan == [timestamp |-> now, status |-> "ANALYZING",
                       warnings |-> <<>>, errors |-> <<>>]
        entry_price == get(entry_details, "entry_price", 0)
        entry_date == get(entry_details, "entry_date", NoDate)
    IN
    IF entry_price <= 0 \/ entry_date = NoDate
    THEN [plan |-> [trade_plan EXCEPT !.status = "INVALID_ENTRY",
                                      !.errors = <<"Invalid entry price/date">>],
          calls |-> <<>>]
    ELSE
    LET stop_details == calculate_stop_loss(s, atr_period, entry_price, entry_date)
    IN
    IF "error" \in DOMAIN stop_details
    THEN [plan |-> stop_loss_error_plan(trade_plan, stop_details),
          calls |-> <<"calculate_stop_loss">>]
    ELSE
    LET final_stop == stop_details.stop_loss_price
        warnings1 == IF stop_details.stop_adjusted
                     THEN <<stop_details.adjustment_reason>> ELSE <<>>
        position == calculate_position_size(equity, entry_price, final_stop)
    IN
    IF "raised" \in DOMAIN position
    THEN [plan |-> position,
          calls |-> <<"calculate_stop_loss", "calculate_position_size">>]
    ELSE IF "error" \in DOMAIN position
    THEN [plan |-> position_error_plan([trade_plan EXCEPT !.warnings = warnings1],
                                       position),
          calls |-> <<"calculate_stop_loss", "calculate_position_size">>]
    ELSE
    LET \* lines 293-295: status POSITION_TOO_SMALL is set here and replaced by
        \* the update of lines 324-332 below
        warnings2 == IF position.shares = 0
                     THEN Append(warnings1, "0 shares - risk too high") ELSE warnings1
        trailing == calculate_trailing_stop(s, entry_price, entry_date, TRAILING_SMA_PERIOD)
        warnings3 == IF "error" \in DOMAIN trailing
                     THEN Append(warnings2, trailing.error) ELSE warnings2
        rr == calculate_risk_reward(entry_price, final_stop, consolidation_info)
    IN [plan |-> [timestamp |-> now,
                  status |-> IF position.shares > 0 THEN "READY" ELSE "SKIP",
                  warnings |-> warnings3,
                  errors |-> <<>>,
                  entry_price |-> entry_price,
                  entry_date |-> entry_date,
                  stop_loss |-> stop_details,
                  position |-> position,
                  trailing_stop |-> trailing,
                  risk_reward |-> rr],
        calls |-> <<"calculate_stop_loss", "calculate_position_size",
                    "calculate_trailing_stop", "calculate_risk_reward">>]

\* ============================================================ screener.py
Volume(s, p) == s[p + 1].Volume

\* the mean volume of the last SMA_PERIOD bars, carried as their sum; 0 when
\* the series is too short
calculate_50_day_average_volume(s) ==
    IF Len(s) < SMA_PERIOD THEN 0
    ELSE SumOver([p \in index(s) |-> Volume(s, p)], Len(s) - SMA_PERIOD, Len(s) - 1)

\* the mean close of the last SMA_PERIOD bars, carried as their sum; 0 when
\* the series is too short
calculate_50_day_sma(s) ==
    IF Len(s) < SMA_PERIOD THEN 0
    ELSE SumOver([p \in index(s) |-> Close(s, p)], Len(s) - SMA_PERIOD, Len(s) - 1)

\* half the minimum volume as the threshold
volume_below_half(avg_volume) == avg_volume * 2 < MIN_VOLUME * SMA_PERIOD

\* line 68: avg_volume < MIN_VOLUME
volume_too_low(avg_volume) == avg_volume < MIN_VOLUME * SMA_PERIOD

\* The message of a filter is its text without the numbers, and the numbers
\* it formats.
liquidity_filter(s) ==
    LET current_price == Close(s, Len(s) - 1)
        avg_volume == calculate_50_day_average_volume(s)
    IN IF current_price < P(MIN_PRICE)
       THEN [passed |-> FALSE,
             message |-> [text |-> "Price < MIN_PRICE", values |-> <<current_price>>]]
       ELSE IF volume_too_low(avg_volume)
       THEN [passed |-> FALSE,
             message |-> [text |-> "50-day avg volume < MIN_VOLUME",
                          values |-> <<avg_volume>>]]
       ELSE [passed |-> TRUE,
             message |-> [text |-> "Passed liquidity",
                          values |-> <<current_price, avg_volume>>]]

trend_filter(s) ==
    LET current_price == Close(s, Len(s) - 1)
        sma_50 == calculate_50_day_sma(s)
    IN IF sma_50 = 0
       THEN [passed |-> FALSE,
             message |-> [text |-> "Insufficient data for SMA", values |-> <<>>]]
       ELSE IF current_price * SMA_PERIOD <= sma_50
       THEN [passed |-> FALSE,
             message |-> [text |-> "Price <= 50-SMA", values |-> <<current_price, sma_50>>]]
       ELSE [passed |-> TRUE,
             message |-> [text |-> "Price > 50-SMA", values |-> <<current_price, sma_50>>]]

\* calls is the sequence of the filters run_screener invoked, in order.
run_screener(s) ==
    LET liquidity == liquidity_filter(s)
        trend == trend_filter(s)
    IN IF ~liquidity.passed
       THEN [passed |-> FALSE,
             message |-> [text |-> "SCREENER FAIL - Liquidity",
                          parts |-> <<liquidity.message>>],
             calls |-> <<"liquidity_filter">>]
       ELSE IF ~trend.passed
       THEN [passed |-> FALSE,
             message |-> [text |-> "SCREENER FAIL - Trend", parts |-> <<trend.message>>],
             calls |-> <<"liquidity_filter", "trend_filter">>]
       ELSE [passed |-> TRUE,
             message |-> [text |-> "SCREENER PASS",
                          parts |-> <<liquidity.message, trend.message>>],
             calls |-> <<"liquidity_filter", "trend_filter">>]

\* ================================================================ main.py
\* the signaller run whatever the screener said
system_result_unscreened(s, equity, now, screener, signal) ==
    IF signal.signal # "BUY"
    THEN [result |-> signal, calls |-> <<"run_screener", "run_signaller">>]
    ELSE [result |-> [screener_result |-> screener.message,
                      signal_result |-> signal,
                      trade_plan |-> execute_trade(s, equity, ATR_PERIOD,
                                                   signal.entry_details,
                                                   signal.consolidation_info, now).plan],
          calls |-> <<"run_screener", "run_signaller", "execute_trade">>]

\* lines 49-80 of run_full_system: what it returns, given the results of the
\* screener and (when the screener passed) of the signaller, and calls, the
\* sequence of the phases it ran
system_result(s, equity, now, screener, signal) ==
    IF ~screener.passed
    THEN [result |-> None, calls |-> <<"run_screener">>]
    ELSE IF signal.signal # "BUY"
    THEN [result |-> signal, calls |-> <<"run_screener", "run_signaller">>]
    ELSE [result |-> [screener_result |-> screener.message,
                      signal_result |-> signal,
                      trade_plan |-> execute_trade(s, equity, ATR_PERIOD,
                                                   signal.entry_details,
                                                   signal.consolidation_info, now).plan],
          calls |-> <<"run_screener", "run_signaller", "execute_trade">>]

\* run_full_system on the series s that safe_download returned
run_full_system(s, equity, now) ==
    CHOOSE r \in {system_result(s, equity, now, screener, signal) :
                    screener \in {run_screener(s)}, signal \in {run_signaller(s)}} : TRUE

\* ===================================================== trading_strategy.py
\* The earlier single-file version of the screener and the signaller.  Its
\* thresholds are literals in the code.
\* lines 21-33 (the 50-day average volume of lines 12-18 is the same
\* computation as screener.py's)
ts_liquidity_filter(s) ==
    LET current_price == Close(s, Len(s) - 1)
        avg_volume_50Day == calculate_50_day_average_volume(s)
    IN IF current_price < P(3)
       THEN [passed |-> FALSE, message |-> "under $3"]
       ELSE IF avg_volume_50Day < 300000 * 50
       THEN [passed |-> FALSE, message |-> "under 300,000 shares"]
       ELSE [passed |-> TRUE, message |-> "50-day Average Volume is trading at"]

\* lines 43-50 (the 50-day SMA of lines 35-41 is the same computation as
\* screener.py's); no test for a missing SMA
ts_trend_filter(s) ==
    LET current_price == Close(s, Len(s) - 1)
        sma_50 == calculate_50_day_sma(s)
    IN IF current_price * 50 <= sma_50
       THEN [passed |-> FALSE, message |-> "below the 50 SMA"]
       ELSE [passed |-> TRUE, message |-> "above the 50 SMA"]

\* lines 52-63: both filters are evaluated, then tested in turn
the_screener(s) ==
    LET liquidity == ts_liquidity_filter(s)
        trend == ts_trend_filter(s)
    IN IF ~liquidity.passed THEN [passed |-> FALSE, message |-> liquidity.message]
       ELSE IF ~trend.passed THEN [passed |-> FALSE, message |-> trend.message]
       ELSE [passed |-> TRUE, message |-> "passed the both liquidity and trend filters"]

\* lines 65-82
ts_riser(s, window_days, min_increase) ==
    IF Len(s) < window_days
    THEN [passed |-> FALSE, message |-> "Not enough data"]
    ELSE LET current_price == Close(s, Len(s) - 1)
             price_window_ago == Close(s, Len(s) - window_days)
         IN IF (current_price - price_window_ago) * 100 < min_increase * price_window_ago
            THEN [passed |-> FALSE, message |-> "Price increased by (needs)"]
            ELSE [passed |-> TRUE, message |-> "Price increased by"]

\* lines 84-240, with the defaults consolidation_min = 4, consolidation_max
\* = 40, max_retracement = 25; every failure returns {} as the descriptor
ts_consolidation(s) ==
    LET n == Len(s)
        consolidation_min == 4
        consolidation_max == 40
        max_retracement == 25
        fail(msg) == [passed |-> FALSE, message |-> msg, info |-> EmptyDict]
    IN
    IF n < 63 THEN fail("Need at least 63 days of data")
    ELSE
    LET peak_position == idxmaxHigh(s, n - 63, n - 1)
        peak_price == High(s, peak_position)
    IN
    IF n - (peak_position + 1) = 0 THEN fail("Peak is the most recent day")
    ELSE
    LET retracement_low_position == idxminLow(s, peak_position + 1, n - 1)
        retracement_low == Low(s, retracement_low_position)
    IN
    IF (peak_price - retracement_low) * 100 >= max_retracement * peak_price
    THEN fail("Retracement limit")
    ELSE IF n - retracement_low_position < consolidation_min
    THEN fail("Only days since retracement low")
    ELSE
    LET consolidation_high_date == idxmaxHigh(s, retracement_low_position, n - 1)
        consolidation_high == High(s, consolidation_high_date)
        consolidation_low == retracement_low
        current_position == n - 1
        days_in_consolidation == current_position - retracement_low_position
        violations == range_violations(s, retracement_low_position, n - 1,
                                       consolidation_high, consolidation_low)
        closes_in_range == closes_in_range_count(s, retracement_low_position, n - 1,
                                                 consolidation_low, consolidation_high)
    IN
    IF days_in_consolidation < consolidation_min
    THEN fail("Only days in consolidation")
    ELSE IF days_in_consolidation > consolidation_max
    THEN fail("days in consolidation exceeds max")
    ELSE IF violations # {}
    THEN fail("Price broke consolidation range")
    ELSE IF closes_in_range * 100 < 70 * (n - retracement_low_position)
    THEN fail("closes within consolidation range")
    ELSE [passed |-> TRUE, message |-> "Consolidation confirmed",
          info |-> [peak_63day_price |-> peak_price,
                    peak_63day_date |-> peak_position,
                    consolidation_high |-> consolidation_high,
                    consolidation_high_date |-> consolidation_high_date,
                    consolidation_low |-> consolidation_low,
                    consolidation_low_date |-> retracement_low_position,
                    days_in_consolidation |-> days_in_consolidation,
                    days_since_peak |-> current_position - peak_position,
                    current_price |-> Close(s, n - 1),
                    breakout_level |-> consolidation_high,
                    stop_loss_level |-> consolidation_low]]

\* lines 242-317.  In the no-breakout branch line 300 reads the local
\* entry_price, which only the breakout branch assigns (line 268).
ts_entry_trigger(s, consolidation_info) ==
    IF IsEmpty(consolidation_info)
    THEN [triggered |-> FALSE, message |-> "No consolidation data available",
          entry_price |-> 0, entry_details |-> EmptyDict]
    ELSE
    LET breakout_level == get(consolidation_info, "breakout_level", 0)
        stop_loss_level == get(consolidation_info, "stop_loss_level", 0)
        current_price == Close(s, Len(s) - 1)
        current_high == High(s, Len(s) - 1)
    IN
    IF breakout_level <= 0 \/ stop_loss_level <= 0
    THEN [triggered |-> FALSE, message |-> "Invalid consolidation levels",
          entry_price |-> 0, entry_details |-> EmptyDict]
    ELSE IF current_high * 100 > breakout_level * (100 + 2)
    THEN [triggered |-> TRUE, message |-> "BUY",
          entry_price |-> current_price,
          entry_details |->
             [entry_price |-> current_price,
              entry_date |-> Len(s) - 1,
              breakout_level |-> breakout_level,
              stop_loss_level |-> stop_loss_level,
              risk_per_share |-> current_price - stop_loss_level,
              original_peak_price |->
                  get(consolidation_info, "peak_63day_price", breakout_level)]]
    ELSE Raise("UnboundLocalError")

\* lines 359-468 of signaller, from the screener's and the riser's results
signaller_result(s, screener, r) ==
    LET results0 == [analysis_date |-> Len(s) - 1,
                     current_price |-> Close(s, Len(s) - 1),
                     screener_passed |-> FALSE,
                     riser_passed |-> FALSE,
                     consolidation_passed |-> FALSE,
                     entry_triggered |-> FALSE,
                     stage_messages |-> <<>>,
                     consolidation_info |-> None,
                     entry_details |-> None,
                     final_signal |-> "NO SIGNAL",
                     recommended_action |-> "HOLD"]
        results1 == [results0 EXCEPT
                       !.screener_passed = screener.passed,
                       !.stage_messages = Append(@, <<"SCREENER", screener.message>>)]
        results2 == [results1 EXCEPT
                       !.riser_passed = r.passed,
                       !.stage_messages = Append(@, <<"RISER", r.message>>)]
    IN
    IF Len(s) < 63
    THEN [results0 EXCEPT !.final_signal = "INSUFFICIENT_DATA"]
    ELSE IF ~screener.passed
    THEN [results1 EXCEPT !.final_signal = "SCREENER_FAIL",
                          !.recommended_action = "IGNORE"]
    ELSE IF ~r.passed
    THEN [results2 EXCEPT !.final_signal = "RISER_FAIL",
                          !.recommended_action = "MONITOR"]
    ELSE
    LET c == ts_consolidation(s)
        results3 == [results2 EXCEPT
                       !.consolidation_passed = c.passed,
                       !.stage_messages = Append(@, <<"CONSOLIDATION", c.message>>),
                       !.consolidation_info = c.info]
    IN
    IF ~c.passed
    THEN [results3 EXCEPT !.final_signal = "CONSOLIDATION_FAIL",
                          !.recommended_action = "MONITOR"]
    ELSE
    LET e == ts_entry_trigger(s, c.info)
    IN
    IF "raised" \in DOMAIN e THEN e
    ELSE
    LET results4 == [results3 EXCEPT
                       !.entry_triggered = e.triggered,
                       !.entry_details = e.entry_details,
                       !.stage_messages = Append(@, <<"ENTRY", e.message>>)]
    IN
    IF e.triggered
    THEN [results4 EXCEPT !.final_signal = "BUY", !.recommended_action = "BUY"]
    ELSE [results4 EXCEPT !.final_signal = "HOLD", !.recommended_action = "MONITOR"]

\* lines 320-468, with the defaults riser_window = 63, riser_min_increase = 30;
\* an exception of entry_trigger (line 423) is not caught
signaller(s) ==
    CHOOSE r \in {signaller_result(s, screener, rise) :
                    screener \in {the_screener(s)},
                    rise \in {IF Len(s) < 63 THEN None ELSE ts_riser(s, 63, 30)}} : TRUE

\* ================================================================ inputs
\* A bar, prices in dollars
BarV(h, l, c, v) == [High |-> P(h), Low |-> P(l), Close |-> P(c), Volume |-> v]
Bar(h, l, c) == BarV(h, l, c, MIN_VOLUME)

\* The last bar of a series: plain, +3 % / +2 % / +1 % above the range high,
\* closing on its low, closing down
LastBars == {<<100, 98, 99>>, <<103, 99, 102>>, <<102, 98, 101>>,
             <<101, 98, 100>>, <<100, 99, 99>>, <<100, 96, 97>>}
\* and one closing exactly RISER_MIN_INCREASE percent above a close of 70
SignallerLastBars == LastBars \cup {<<92, 90, 91>>}

\* farther back than any bar of a series: no such bar
Absent == 4 * RISER_WINDOW
\* bars between the peak spike / the dip and the last bar
PeakAgos == {Absent, 0, 5, 45, 62}
LowAgos == {Absent, 0, 1, 2, 3, 4, 11, 39, 40, 41}
DipLows == {97, 76, 75}
PastCloses == {70, 99}
Lengths == {RISER_WINDOW - 1} \cup (RISER_WINDOW .. (RISER_WINDOW + MaxExtra))

\* n bars: closes at past until RISER_WINDOW - 1 bars before the last and at
\* 99 after (range 98..100), a spike to 110 peakAgo bars before the last, a
\* dip to dipLow lowAgo bars before the last (where that is below the bar's
\* low), and the given last bar.  Every bar has Low <= Close <= High.
MakeSeries(n, past, peakAgo, lowAgo, dipLow, last) ==
    [i \in 1..n |->
        LET ago == n - i
            c == IF ago >= RISER_WINDOW - 1 THEN past ELSE 99
            h0 == IF ago = 0 THEN last[1] ELSE c + 1
            l0 == IF ago = 0 THEN last[2] ELSE c - 1
        IN Bar(IF ago = peakAgo THEN 110 ELSE h0,
               IF ago = lowAgo /\ dipLow < l0 THEN dipLow ELSE l0,
               IF ago = 0 THEN last[3] ELSE c)]

\* n identical bars with High = Low = Close
FlatSeries(n) == [i \in 1..n |-> Bar(99, 99, 99)]

SeriesInputs ==
    {MakeSeries(n, past, pk, lw, dip, last) :
        n \in Lengths, past \in PastCloses, pk \in PeakAgos,
        lw \in LowAgos, dip \in DipLows, last \in SignallerLastBars}
    \cup {FlatSeries(n) : n \in Lengths}

\* n bars in the range 98..100 whose last k closes fall a dollar a bar
DownSeries(n, k) ==
    [i \in 1..n |->
        LET ago == n - i
            c == IF ago < k THEN 99 - (k - ago) ELSE 99
        IN Bar(c + 1, c - 1, c)]

\* n bars in the range 98..100 but for one bar, k bars before the last,
\* that closes two dollars lower
RecoverSeries(n, k) ==
    [i \in 1..n |->
        LET c == IF n - i = k THEN 97 ELSE 99
        IN Bar(c + 1, c - 1, c)]

\* the last bars of the executor's series: LastBars and a bar that closes on
\* its low
ExecutorLastBars == LastBars \cup {<<103, 102, 102>>}

\* the series the executor is exercised on
ExecutorSeriesInputs ==
    {MakeSeries(n, 70, pk, lw, 97, last) :
        n \in {RISER_WINDOW, RISER_WINDOW + MaxExtra}, pk \in {Absent, 5, 45},
        lw \in {Absent, 0, 4, 11}, last \in ExecutorLastBars}
    \cup {FlatSeries(RISER_WINDOW)}
    \cup {DownSeries(RISER_WINDOW, k) : k \in {2, 3}}
    \cup {RecoverSeries(RISER_WINDOW, k) : k \in {1, 2}}

\* the series s with every bar's volume v except the last bar's, vlast
WithVolume(s, v, vlast) ==
    [i \in 1..Len(s) |-> [s[i] EXCEPT !.Volume = IF i = Len(s) THEN vlast ELSE v]]

\* n bars closing at c with volume v, the last bar closing at clast with
\* volume vlast
ScreenerSeries(n, c, clast, v, vlast) ==
    [i \in 1..n |-> IF i = n THEN BarV(clast + 1, clast - 1, clast, vlast)
                              ELSE BarV(c + 1, c - 1, c, v)]

ScreenerLengths == {1, 2, SMA_PERIOD - 1} \cup (SMA_PERIOD .. (SMA_PERIOD + MaxExtra))
Volumes == {250000, 300000}
LastVolumes == {250000, 350000}

\* the series the screener and the whole system are exercised on
SystemSeriesInputs ==
    {ScreenerSeries(n, c, clast, v, vlast) :
        n \in ScreenerLengths, c \in {2, 99}, clast \in {2, 3, 100},
        v \in Volumes, vlast \in LastVolumes}
    \cup {WithVolume(MakeSeries(RISER_WINDOW + MaxExtra, 70, Absent, lw, 97, last),
                     v, 350000) :
            lw \in {Absent, 11}, last \in {<<103, 99, 102>>, <<100, 96, 97>>},
            v \in Volumes}

ACCOUNT_EQUITY == 100000
Equities == {P(100), P(ACCOUNT_EQUITY)}
EntryPrices == {0, P(98), P(99), P(100), P(103)}
EntryDates(s) == {NoDate, Len(s), 0, Len(s) - 1, Len(s) - TRAILING_SMA_PERIOD}
StopPrices == {0, P(97), P(98), P(100)}
\* riser's window_days and min_increase
Windows == {2, RISER_WINDOW}
MinIncreases == {0, RISER_MIN_INCREASE}
\* the consolidation descriptors entry_trigger is called with
EntryInfos(s) ==
    {EmptyDict, consolidation(s).info}
    \cup {[breakout_level |-> b, stop_loss_level |-> sl, peak_price |-> P(110)] :
            b \in {0, P(100)}, sl \in {0, P(97)}}
\* the consolidation descriptors trading_strategy.entry_trigger is called with
TsEntryInfos(s) ==
    {EmptyDict, ts_consolidation(s).info}
    \cup {[breakout_level |-> b, stop_loss_level |-> sl, peak_63day_price |-> P(110)] :
            b \in {0, P(100)}, sl \in {0, P(97)}}
\* calculate_atr's period (each divides the ticks of a dollar)
AtrPeriods == {2, 7, ATR_PERIOD}
SmaPeriods == {3, TRAILING_SMA_PERIOD}

\* ================================================================ machine
\* A caller holds a series and calls one function at a time: op is the call
\* made last, args its arguments and ret what it returned.
Init ==
    /\ stock_data \in SeriesInputs
    /\ account_equity = P(ACCOUNT_EQUITY)
    /\ op = "idle"
    /\ args = EmptyDict
    /\ ret = EmptyDict
    /\ clock = 0
    /\ previous = None

Riser ==
    /\ op = "idle"
    /\ \E window_days \in Windows, min_increase \in MinIncreases :
         /\ op' = "riser"
         /\ args' = [window_days |-> window_days, min_increase |-> min_increase]
         /\ ret' = riser(stock_data, window_days, min_increase)
    /\ UNCHANGED <<stock_data, account_equity, clock, previous>>

Consolidation ==
    /\ op = "idle"
    /\ op' = "consolidation"
    /\ args' = EmptyDict
    /\ ret' = consolidation(stock_data)
    /\ UNCHANGED <<stock_data, account_equity, clock, previous>>

EntryTrigger ==
    /\ op = "idle"
    /\ \E consolidation_info \in EntryInfos(stock_data) :
         /\ op' = "entry_trigger"
         /\ args' = [consolidation_info |-> consolidation_info]
         /\ ret' = entry_trigger(stock_data, consolidation_info)
    /\ UNCHANGED <<stock_data, account_equity, clock, previous>>

RunSignaller ==
    /\ op = "idle"
    /\ op' = "run_signaller"
    /\ args' = EmptyDict
    /\ ret' = run_signaller(stock_data)
    /\ UNCHANGED <<stock_data, account_equity, clock, previous>>

\* the caller is done with the result
Return ==
    /\ op # "idle"
    /\ op' = "idle"
    /\ args' = EmptyDict
    /\ ret' = EmptyDict
    /\ previous' = None
    /\ UNCHANGED <<stock_data, account_equity, clock>>

Next ==
    \/ Riser
    \/ Consolidation
    \/ EntryTrigger
    \/ RunSignaller
    \/ Return

Spec == Init /\ [][Next]_vars

\* ------------------------------------------------- the executor's calls
InitExec ==
    /\ stock_data \in ExecutorSeriesInputs
    /\ account_equity = P(ACCOUNT_EQUITY)
    /\ op = "idle"
    /\ args = EmptyDict
    /\ ret = EmptyDict
    /\ clock = 0
    /\ previous = None

\* TradeExecutor(account_equity=equity).calculate_position_size(...)
CalculatePositionSize ==
    /\ op = "idle"
    /\ \E equity \in Equities, entry_price \in EntryPrices, stop_loss_price \in StopPrices :
         /\ op' = "calculate_position_size"
         /\ account_equity' = equity
         /\ args' = [entry_price |-> entry_price, stop_loss_price |-> stop_loss_price]
         /\ ret' = calculate_position_size(equity, entry_price, stop_loss_price)
    /\ UNCHANGED <<stock_data, clock, previous>>

CalculateAtr ==
    /\ op = "idle"
    /\ \E period \in AtrPeriods :
         /\ op' = "calculate_atr"
         /\ args' = [period |-> period]
         /\ ret' = calculate_atr(stock_data, period)
    /\ UNCHANGED <<stock_data, account_equity, clock, previous>>

CalculateStopLoss ==
    /\ op = "idle"
    /\ \E entry_price \in EntryPrices, entry_date \in EntryDates(stock_data) :
         /\ op' = "calculate_stop_loss"
         /\ args' = [entry_price |-> entry_price, entry_date |-> entry_date]
         /\ ret' = calculate_stop_loss(stock_data, ATR_PERIOD, entry_price, entry_date)
    /\ UNCHANGED <<stock_data, account_equity, clock, previous>>

CalculateTrailingStop ==
    /\ op = "idle"
    /\ \E entry_price \in EntryPrices, entry_date \in EntryDates(stock_data),
          sma_period \in SmaPeriods :
         /\ op' = "calculate_trailing_stop"
         /\ args' = [entry_price |-> entry_price, entry_date |-> entry_date,
                     sma_period |-> sma_period]
         /\ ret' = calculate_trailing_stop(stock_data, entry_price, entry_date, sma_period)
    /\ UNCHANGED <<stock_data, account_equity, clock, previous>>

\* TradeExecutor(account_equity=equity).execute_trade(...)
ExecuteTrade ==
    /\ op = "idle"
    /\ \E equity \in Equities, entry_price \in EntryPrices,
          entry_date \in EntryDates(stock_data),
          consolidation_info \in {consolidation(stock_data).info, EmptyDict} :
         /\ op' = "execute_trade"
         /\ account_equity' = equity
         /\ args' = [entry_details |-> [entry_price |-> entry_price,
                                        entry_date |-> entry_date],
                     consolidation_info |-> consolidation_info]
         /\ ret' = execute_trade(stock_data, equity, ATR_PERIOD,
                                 args'.entry_details, consolidation_info, clock)
    /\ UNCHANGED <<stock_data, clock, previous>>

\* entry_trigger fired on the series and its entry_details are handed to
\* TradeExecutor(account_equity=equity).execute_trade(...)
ExecuteTriggeredTrade ==
    /\ op = "idle"
    /\ \E equity \in Equities, consolidation_info \in EntryInfos(stock_data) :
         \E e \in {entry_trigger(stock_data, consolidation_info)} :
            /\ e.triggered
            /\ op' = "execute_trade"
            /\ account_equity' = equity
            /\ args' = [entry_details |-> e.entry_details,
                        consolidation_info |-> consolidation_info]
            /\ ret' = execute_trade(stock_data, equity, ATR_PERIOD,
                                    e.entry_details, consolidation_info, clock)
    /\ UNCHANGED <<stock_data, clock, previous>>

NextExec ==
    \/ CalculatePositionSize
    \/ CalculateAtr
    \/ CalculateStopLoss
    \/ CalculateTrailingStop
    \/ ExecuteTrade
    \/ ExecuteTriggeredTrade
    \/ Return

SpecExec == InitExec /\ [][NextExec]_vars

\* ------------------------------------------ trading_strategy.py's calls
InitTradingStrategy ==
    /\ stock_data \in SeriesInputs
    /\ account_equity = P(ACCOUNT_EQUITY)
    /\ op = "idle"
    /\ args = EmptyDict
    /\ ret = EmptyDict
    /\ clock = 0
    /\ previous = None

\* trading_strategy.consolidation(stock_data, symbol)
TsConsolidation ==
    /\ op = "idle"
    /\ op' = "trading_strategy.consolidation"
    /\ args' = EmptyDict
    /\ ret' = ts_consolidation(stock_data)
    /\ UNCHANGED <<stock_data, account_equity, clock, previous>>

\* trading_strategy.entry_trigger(stock_data, symbol, consolidation_info)
TsEntryTrigger ==
    /\ op = "idle"
    /\ \E consolidation_info \in TsEntryInfos(stock_data) :
         /\ op' = "trading_strategy.entry_trigger"
         /\ args' = [consolidation_info |-> consolidation_info]
         /\ ret' = ts_entry_trigger(stock_data, consolidation_info)
    /\ UNCHANGED <<stock_data, account_equity, clock, previous>>

\* trading_strategy.signaller(stock_data, symbol)
Signaller ==
    /\ op = "idle"
    /\ op' = "trading_strategy.signaller"
    /\ args' = EmptyDict
    /\ ret' = signaller(stock_data)
    /\ UNCHANGED <<stock_data, account_equity, clock, previous>>

NextTradingStrategy ==
    \/ Consolidation
    \/ TsConsolidation
    \/ TsEntryTrigger
    \/ Signaller
    \/ Return

SpecTradingStrategy == InitTradingStrategy /\ [][NextTradingStrategy]_vars

\* ------------------------------------- the screener and the whole system
InitSystem ==
    /\ stock_data \in SystemSeriesInputs
    /\ account_equity = P(ACCOUNT_EQUITY)
    /\ op = "idle"
    /\ args = EmptyDict
    /\ ret = EmptyDict
    /\ clock = 0
    /\ previous = None

LiquidityFilter ==
    /\ op = "idle"
    /\ op' = "liquidity_filter"
    /\ args' = EmptyDict
    /\ ret' = liquidity_filter(stock_data)
    /\ UNCHANGED <<stock_data, account_equity, clock, previous>>

TrendFilter ==
    /\ op = "idle"
    /\ op' = "trend_filter"
    /\ args' = EmptyDict
    /\ ret' = trend_filter(stock_data)
    /\ UNCHANGED <<stock_data, account_equity, clock, previous>>

RunScreener ==
    /\ op = "idle"
    /\ op' = "run_screener"
    /\ args' = EmptyDict
    /\ ret' = run_screener(stock_data)
    /\ UNCHANGED <<stock_data, account_equity, clock, previous>>

\* run_full_system(symbol, account_equity) with the default equity
RunFullSystem ==
    /\ op = "idle"
    /\ op' = "run_full_system"
    /\ account_equity' = P(ACCOUNT_EQUITY)
    /\ args' = EmptyDict
    /\ ret' = run_full_system(stock_data, P(ACCOUNT_EQUITY), clock)
    /\ UNCHANGED <<stock_data, clock, previous>>

\* the wall clock advances
Tick ==
    /\ clock < MaxClock
    /\ clock' = clock + 1
    /\ UNCHANGED <<stock_data, account_equity, op, args, ret, previous>>

\* The caller repeats the call made last on the same series, with the same
\* executor and the same arguments, keeping the first result to compare.
CallAgain ==
    /\ op \in {"run_screener", "run_signaller", "execute_trade"}
    /\ previous = None
    /\ previous' = ret
    /\ ret' = IF op = "run_screener" THEN run_screener(stock_data)
              ELSE IF op = "run_signaller" THEN run_signaller(stock_data)
              ELSE execute_trade(stock_data, account_equity, ATR_PERIOD,
                                 args.entry_details, args.consolidation_info, clock)
    /\ UNCHANGED <<stock_data, account_equity, op, args, clock>>

NextSystem ==
    \/ LiquidityFilter
    \/ TrendFilter
    \/ RunScreener
    \/ RunFullSystem
    \/ RunSignaller
    \/ ExecuteTrade
    \/ Tick
    \/ CallAgain
    \/ Return

SpecSystem == InitSystem /\ [][NextSystem]_vars

\* ================================================================ claims
last_index(s) == Len(s) - 1

\* consolidation went past the retracement cap (it reached line 137)
PastRetracementCap(r) == r.info.consolidation_start_date # NoDate

\* ---------------------------------------------------------------- C1
\* Scenario A: the riser passes; up to the bar before the last the series is
\* in a valid consolidation whose retracement low lies 10 range bars back; the
\* last bar's high is at least 3 % above that range's high.
ScenarioA(s) ==
    /\ Len(s) > RISER_WINDOW
    /\ riser(s, RISER_WINDOW, RISER_MIN_INCREASE).passed
    /\ LET before == consolidation(SubSeq(s, 1, Len(s) - 1))
       IN /\ before.passed
          /\ before.info.days_since_retracement = 10
          /\ High(s, last_index(s)) * 100 >= 103 * before.info.consolidation_high

\* C1: on a Scenario A series run_signaller returns signal BUY with
\* entry_triggered true.
C1_ScenarioA_Buy ==
    (op = "run_signaller" /\ ScenarioA(stock_data))
        => (ret.signal = "BUY" /\ ret.entry_triggered)

\* what the code does instead: run_signaller never returns BUY
C1_NeverBuy == op = "run_signaller" => ret.signal # "BUY"

C1_ScenarioA_Reached ==
    op = "run_signaller" /\ ScenarioA(stock_data) /\ ret.signal = "HOLD"

\* ---------------------------------------------------------------- C2
\* C2: days_in_consolidation = last_index - retracement_low_index (the low
\* bar is day 0); a retracement low on the most recent bar gives 0 days and
\* the stage fails as too short.
C2_DaysFromLow ==
    (op = "consolidation" /\ PastRetracementCap(ret)) =>
        /\ ret.info.days_in_consolidation
              = last_index(stock_data) - ret.info.retracement_low_date
        /\ (ret.info.retracement_low_date = last_index(stock_data) =>
              /\ ret.info.days_in_consolidation = 0
              /\ ret.message = "Only few days since retracement")

\* what the code does instead: the low bar is counted as day 1
C2_CodeCountsLowAsDayOne ==
    (op = "consolidation" /\ PastRetracementCap(ret)) =>
        /\ ret.info.days_in_consolidation
              = last_index(stock_data) - ret.info.retracement_low_date + 1
        /\ (ret.info.retracement_low_date = last_index(stock_data) =>
              ret.message = "Only few days since retracement")

C2_LowOnLastBar ==
    /\ op = "consolidation" /\ PastRetracementCap(ret)
    /\ ret.info.retracement_low_date = last_index(stock_data)

\* ---------------------------------------------------------------- C3
\* C3: past the retracement cap, the duration step fails as too short exactly
\* when last_index - retracement_low_index < 4 and as too long exactly when
\* it is > 40.
C3_DurationBounds ==
    (op = "consolidation" /\ PastRetracementCap(ret)) =>
        LET d == last_index(stock_data) - ret.info.retracement_low_date
        IN /\ (ret.message = "Only few days since retracement")
                 <=> (d < CONSOLIDATION_MIN_DAYS)
           /\ (ret.message = "Days > max") <=> (d > CONSOLIDATION_MAX_DAYS)

\* what the code does instead: the bounds apply to d + 1
C3_CodeDurationBounds ==
    (op = "consolidation" /\ PastRetracementCap(ret)) =>
        LET d == last_index(stock_data) - ret.info.retracement_low_date
        IN /\ (ret.message = "Only few days since retracement")
                 <=> (d + 1 < CONSOLIDATION_MIN_DAYS)
           /\ (ret.message = "Days > max") <=> (d + 1 > CONSOLIDATION_MAX_DAYS)

C3_LowThreeBack ==
    /\ op = "consolidation" /\ PastRetracementCap(ret)
    /\ last_index(stock_data) - ret.info.retracement_low_date = 3
    /\ ret.passed

C3_LowFortyBack ==
    /\ op = "consolidation" /\ PastRetracementCap(ret)
    /\ last_index(stock_data) - ret.info.retracement_low_date = 40
    /\ ret.message = "Days > max"

\* ------------------------------------------------------------ executor
is_error(r) == "error" \in DOMAIN r

\* the position sizing of the call made last: the direct call, or the one a
\* completed execute_trade made
SizedPosition ==
    IF op = "calculate_position_size" THEN ret
    ELSE IF op = "execute_trade" /\ "position" \in DOMAIN ret.plan THEN ret.plan.position
    ELSE [error |-> "no sizing"]

\* ---------------------------------------------------------------- C4
\* C4: for entry_price > stop_loss_price, shares is the floor of
\* max_risk_amount / (entry_price - stop_loss_price) (shares * risk <= max <
\* (shares + 1) * risk), risk_amount = shares * risk_per_share, and
\* risk_amount never exceeds max_risk_amount = 2 % of the equity.
C4_SharesFloorRiskCapped ==
    /\ (op = "calculate_position_size" /\ args.entry_price > args.stop_loss_price) =>
          /\ ~is_error(ret)
          /\ ret.risk_per_share = args.entry_price - args.stop_loss_price
    /\ ~is_error(SizedPosition) =>
          LET pos == SizedPosition
              max_risk == pos.max_risk_allowed
          IN /\ max_risk * 100 = account_equity * MAX_RISK_PERCENT
             /\ pos.risk_per_share = pos.entry_price - pos.stop_loss
             /\ pos.risk_per_share > 0
             /\ pos.shares >= 0
             /\ pos.shares * pos.risk_per_share <= max_risk
             /\ max_risk < (pos.shares + 1) * pos.risk_per_share
             /\ pos.risk_amount = pos.shares * pos.risk_per_share
             /\ pos.risk_amount <= max_risk

\* a sizing that rounds down strictly
C4_RoundedDown ==
    /\ op = "calculate_position_size" /\ ~is_error(ret)
    /\ ret.shares > 0
    /\ ret.risk_amount < ret.max_risk_allowed

\* ---------------------------------------------------------------- C5
\* d and a of the stop-loss call made last
C5_d == args.entry_price - Low(stock_data, args.entry_date)
C5_a == calculate_atr(stock_data, ATR_PERIOD)[args.entry_date]

C5_Rule ==
    /\ ~is_error(ret)
    /\ IF C5_a # NaN /\ C5_d > C5_a
       THEN /\ ret.stop_loss_price = args.entry_price - C5_a
            /\ ret.stop_loss_type = "ATR_ADJUSTED"
            /\ ret.stop_adjusted
       ELSE /\ ret.stop_loss_price = Low(stock_data, args.entry_date)
            /\ ret.stop_loss_type = "LOW_OF_DAY"
            /\ ~ret.stop_adjusted

\* C5 as stated: for every entry bar of the series, d > a gives the
\* ATR-adjusted stop entry_price - a, and anything else (d = a included) the
\* low of the day.
C5_StopRuleAnyAtr ==
    (op = "calculate_stop_loss" /\ args.entry_date \in index(stock_data)) => C5_Rule

\* C5 amended: the rule holds whenever a is not 0; when a = 0 the call
\* returns an error result.
C5_StopRule ==
    (op = "calculate_stop_loss" /\ args.entry_date \in index(stock_data)) =>
        IF C5_a = 0 THEN is_error(ret) ELSE C5_Rule

\* Scenario D: the distance to the low exceeds the ATR and the stop is moved
C5_AtrAdjusted ==
    /\ op = "calculate_stop_loss" /\ ~is_error(ret)
    /\ C5_a # NaN /\ C5_d > C5_a
    /\ ret.stop_loss_type = "ATR_ADJUSTED"

C5_DistanceEqualsAtr ==
    /\ op = "calculate_stop_loss" /\ ~is_error(ret)
    /\ C5_d = C5_a
    /\ ret.stop_loss_type = "LOW_OF_DAY"

\* ---------------------------------------------------------------- C6
\* C6: a successful result of calculate_stop_loss has a stop price that is
\* positive and strictly below entry_price (anything else is an error
\* result); stated for the calls with a positive entry_price.
C6_StopValidated ==
    (op = "calculate_stop_loss" /\ args.entry_price > 0 /\ ~is_error(ret)) =>
        (ret.stop_loss_price > 0 /\ ret.stop_loss_price < args.entry_price)

C6_StopAtEntryReturned ==
    /\ op = "calculate_stop_loss" /\ ~is_error(ret)
    /\ args.entry_price > 0
    /\ ret.stop_loss_price = args.entry_price

\* ---------------------------------------------------------------- C7
\* C7: when the entry bar has no defined ATR, atr_val is the last available
\* ATR of the series.
C7_FallsBackToLastAtr ==
    (/\ op = "calculate_stop_loss"
     /\ args.entry_date \in index(stock_data)
     /\ C5_a = NaN) =>
        /\ ~is_error(ret)
        /\ ret.atr_14 = calculate_atr(stock_data, ATR_PERIOD)[last_index(stock_data)]

\* what the code does instead: atr_val is the NaN of the entry bar and the
\* low of the day is the stop whatever the distance
C7_CodeUsesNaN ==
    (/\ op = "calculate_stop_loss"
     /\ args.entry_date \in index(stock_data)
     /\ C5_a = NaN) =>
        /\ ~is_error(ret)
        /\ ret.atr_14 = NaN
        /\ ret.stop_loss_type = "LOW_OF_DAY"

C7_EarlyEntryBar ==
    /\ op = "calculate_stop_loss" /\ ~is_error(ret)
    /\ C5_a = NaN
    /\ calculate_atr(stock_data, ATR_PERIOD)[last_index(stock_data)] # NaN
    /\ C5_d > calculate_atr(stock_data, ATR_PERIOD)[last_index(stock_data)]

\* ---------------------------------------------------------------- C8
PlanComplete == op = "execute_trade" /\ "position" \in DOMAIN ret.plan

\* C8: a sizing of 0 shares gives status POSITION_TOO_SMALL with no errors;
\* READY is returned iff shares > 0.
C8_ZeroSharesTooSmall ==
    PlanComplete =>
        /\ (ret.plan.position.shares = 0 =>
              (ret.plan.status = "POSITION_TOO_SMALL" /\ ret.plan.errors = <<>>))
        /\ (ret.plan.status = "READY" <=> ret.plan.position.shares > 0)

\* what the code does instead: the final status of a 0-share plan is SKIP
C8_CodeZeroSharesSkip ==
    /\ PlanComplete =>
        /\ (ret.plan.position.shares = 0 =>
              (ret.plan.status = "SKIP" /\ ret.plan.errors = <<>>))
        /\ (ret.plan.status = "READY" <=> ret.plan.position.shares > 0)
    /\ op = "execute_trade" => ret.plan.status # "POSITION_TOO_SMALL"

C8_ZeroShares == PlanComplete /\ ret.plan.position.shares = 0

\* ---------------------------------------------------------------- C9
StepOrder == <<"calculate_stop_loss", "calculate_position_size",
               "calculate_trailing_stop", "calculate_risk_reward">>
StepKeys == {"stop_loss", "position", "trailing_stop", "risk_reward"}

\* C9: the steps run in the order StopLoss, PositionSize, TrailingStop,
\* RiskReward; an error of StopLoss or PositionSize ends the plan at once with
\* status STOP_LOSS_ERROR / POSITION_ERROR, the error text in errors, no later
\* step run and no step result in the plan.
C9_OrderAndTerminalErrors ==
    op = "execute_trade" =>
        LET ed == args.entry_details
            stop == calculate_stop_loss(stock_data, ATR_PERIOD, ed.entry_price, ed.entry_date)
            size == calculate_position_size(account_equity, ed.entry_price,
                                            stop.stop_loss_price)
        IN /\ ret.calls = SubSeq(StepOrder, 1, Len(ret.calls))
           /\ (ed.entry_price > 0 /\ ed.entry_date # NoDate) =>
                IF is_error(stop)
                THEN /\ ret.plan.status = "STOP_LOSS_ERROR"
                     /\ ret.plan.errors = <<stop.error>>
                     /\ ret.calls = <<"calculate_stop_loss">>
                     /\ DOMAIN ret.plan \cap StepKeys = {}
                ELSE IF is_error(size)
                THEN /\ ret.plan.status = "POSITION_ERROR"
                     /\ ret.plan.errors = <<size.error>>
                     /\ ret.calls = <<"calculate_stop_loss", "calculate_position_size">>
                     /\ DOMAIN ret.plan \cap StepKeys = {}
                ELSE /\ ret.calls = StepOrder
                     /\ StepKeys \subseteq DOMAIN ret.plan
                     /\ ret.plan.status \notin {"STOP_LOSS_ERROR", "POSITION_ERROR"}
                     /\ ret.plan.errors = <<>>

C9_PositionErrorEndsPlan ==
    /\ op = "execute_trade"
    /\ ret.plan.status = "POSITION_ERROR"
    /\ ret.calls = <<"calculate_stop_loss", "calculate_position_size">>

C9_StopLossErrorEndsPlan ==
    /\ op = "execute_trade"
    /\ ret.plan.status = "STOP_LOSS_ERROR"
    /\ ret.calls = <<"calculate_stop_loss">>

\* ---------------------------------------------------------------- C10
InSeq(x, q) == \E i \in 1..Len(q) : q[i] = x

\* C10: an error of calculate_trailing_stop or of calculate_risk_reward is
\* appended to warnings and the plan still ends READY or SKIP with no errors.
C10_LateErrorsAreWarnings ==
    PlanComplete =>
        /\ (is_error(ret.plan.trailing_stop) =>
              InSeq(ret.plan.trailing_stop.error, ret.plan.warnings))
        /\ (is_error(ret.plan.risk_reward) =>
              InSeq(ret.plan.risk_reward.error, ret.plan.warnings))
        /\ ret.plan.status \in {"READY", "SKIP"}
        /\ ret.plan.errors = <<>>

\* what the code does instead: only the trailing-stop error is a warning
C10_CodeWarnsTrailingOnly ==
    PlanComplete =>
        /\ (is_error(ret.plan.trailing_stop) =>
              InSeq(ret.plan.trailing_stop.error, ret.plan.warnings))
        /\ (is_error(ret.plan.risk_reward) =>
              ~InSeq(ret.plan.risk_reward.error, ret.plan.warnings))
        /\ ret.plan.status \in {"READY", "SKIP"}
        /\ ret.plan.errors = <<>>

C10_RiskRewardErrorDropped ==
    /\ PlanComplete
    /\ is_error(ret.plan.risk_reward)
    /\ ~is_error(ret.plan.trailing_stop)

\* ---------------------------------------------------------------- C11
\* C11: calculate_atr(series, period) is undefined at each of the positions
\* 0..period-1 and defined at every position >= period.
C11_UndefinedFirstPeriodBars ==
    op = "calculate_atr" =>
        \A p \in index(stock_data) : (ret[p] = NaN) <=> (p < args.period)

\* what the code does instead: bar 0 has the true range High - Low, and the
\* ATR is defined from position period - 1 on (and is never negative)
C11_CodeDefinedFromPeriodMinusOne ==
    op = "calculate_atr" =>
        \A p \in index(stock_data) :
            /\ (ret[p] = NaN) <=> (p < args.period - 1)
            /\ ret[p] # NaN => ret[p] >= 0

C11_AtrAtPeriodMinusOne ==
    /\ op = "calculate_atr" /\ args.period = ATR_PERIOD
    /\ ret[ATR_PERIOD - 1] # NaN
    /\ ret[ATR_PERIOD - 2] = NaN

\* ---------------------------------------------------------------- C12
\* the stages run_signaller recorded a message for, in order
StagesRun == [i \in 1..Len(ret.messages) |-> ret.messages[i][1]]

\* C12: run_signaller evaluates Riser, Consolidation, EntryTrigger in that
\* order and stops at the first failure: RISER_FAIL iff the riser fails
\* (consolidation_info and entry_details None, both later flags false),
\* CONSOLIDATION_FAIL iff the riser passes and the consolidation fails
\* (entry_details None), otherwise BUY iff the trigger fired, else HOLD.
C12_StagesInOrder ==
    op = "run_signaller" =>
        LET r == riser(stock_data, RISER_WINDOW, RISER_MIN_INCREASE)
            c == consolidation(stock_data)
            e == entry_trigger(stock_data, c.info)
        IN /\ (ret.signal = "RISER_FAIL") <=> ~r.passed
           /\ ~r.passed =>
                /\ ret.consolidation_info = None /\ ret.entry_details = None
                /\ ~ret.riser_passed /\ ~ret.consolidation_passed /\ ~ret.entry_triggered
                /\ StagesRun = <<"RISER">>
           /\ (ret.signal = "CONSOLIDATION_FAIL") <=> (r.passed /\ ~c.passed)
           /\ (r.passed /\ ~c.passed) =>
                /\ ret.entry_details = None
                /\ ret.riser_passed /\ ~ret.consolidation_passed /\ ~ret.entry_triggered
                /\ StagesRun = <<"RISER", "CONSOLIDATION">>
           /\ (r.passed /\ c.passed) =>
                /\ ret.signal = IF e.triggered THEN "BUY" ELSE "HOLD"
                /\ ret.entry_triggered = e.triggered
                /\ ret.riser_passed /\ ret.consolidation_passed
                /\ StagesRun = <<"RISER", "CONSOLIDATION", "ENTRY">>

C12_ConsolidationFailStops ==
    /\ op = "run_signaller"
    /\ ret.signal = "CONSOLIDATION_FAIL"
    /\ ret.riser_passed
    /\ ret.entry_details = None

C12_RiserFailStops ==
    /\ op = "run_signaller"
    /\ ret.signal = "RISER_FAIL"
    /\ Len(stock_data) >= RISER_WINDOW
    /\ ret.consolidation_info = None

C12_AllStagesRun ==
    /\ op = "run_signaller"
    /\ ret.signal = "HOLD"
    /\ StagesRun = <<"RISER", "CONSOLIDATION", "ENTRY">>

\* ---------------------------------------------------------------- C13
\* C13: with breakout_level > 0 and stop_loss_level > 0, entry_trigger fires
\* iff the last High > breakout_level * 1.02, strictly; on fire entry_price is
\* the last Close, entry_date the last bar's date and risk_per_share =
\* entry_price - stop_loss_level.
C13_FiresStrictlyAboveBuffer ==
    (/\ op = "entry_trigger"
     /\ ~IsEmpty(args.consolidation_info)
     /\ args.consolidation_info.breakout_level > 0
     /\ args.consolidation_info.stop_loss_level > 0) =>
        LET last == stock_data[Len(stock_data)]
            info == args.consolidation_info
        IN /\ ret.triggered <=> (last.High * 100 > info.breakout_level * 102)
           /\ ret.triggered =>
                /\ ret.entry_price = last.Close
                /\ ret.entry_details.entry_price = last.Close
                /\ ret.entry_details.entry_date = last_index(stock_data)
                /\ ret.entry_details.risk_per_share = last.Close - info.stop_loss_level

C13_FiredThreePercentAbove ==
    /\ op = "entry_trigger" /\ ret.triggered
    /\ stock_data[Len(stock_data)].High * 100 = args.consolidation_info.breakout_level * 103
    /\ ret.entry_price < stock_data[Len(stock_data)].High

C13_ExactlyTwoPercentHolds ==
    /\ op = "entry_trigger" /\ ~ret.triggered
    /\ ~IsEmpty(args.consolidation_info)
    /\ args.consolidation_info.stop_loss_level > 0
    /\ args.consolidation_info.breakout_level > 0
    /\ stock_data[Len(stock_data)].High * 100 = args.consolidation_info.breakout_level * 102

\* ---------------------------------------------------------------- C14
\* C14: run_screener, run_signaller and execute_trade called twice on the
\* same series (same executor, same entry details) return identical results,
\* field for field.
C14_SameResultTwice == previous # None => ret = previous

\* what the code does instead: the two trade plans differ in their timestamp
\* (datetime.now()) and in nothing else
C14_CodeSameButTimestamp ==
    previous # None =>
        IF op = "execute_trade"
        THEN [ret EXCEPT !.plan.timestamp = 0] = [previous EXCEPT !.plan.timestamp = 0]
        ELSE ret = previous

C14_TimestampDiffers ==
    /\ previous # None
    /\ op = "execute_trade"
    /\ ret.plan.timestamp # previous.plan.timestamp

C14_ScreenerRepeated == previous # None /\ op = "run_screener" /\ ret.passed

\* ---------------------------------------------------------------- C15
\* C15: on a series of 1 to 49 bars liquidity_filter and trend_filter each
\* return passed = False with an insufficient-data reason.
C15_ShortSeriesInsufficientData ==
    (Len(stock_data) < SMA_PERIOD /\ op \in {"liquidity_filter", "trend_filter"}) =>
        /\ ~ret.passed
        /\ ret.message.text \in {"Insufficient data", "Insufficient data for SMA"}

\* what the code does instead: both fail, trend_filter for insufficient data,
\* liquidity_filter for a price below the minimum or for an average volume
\* of 0 below the minimum
C15_CodeShortSeries ==
    Len(stock_data) < SMA_PERIOD =>
        /\ op = "trend_filter" =>
              (~ret.passed /\ ret.message.text = "Insufficient data for SMA")
        /\ op = "liquidity_filter" =>
              /\ ~ret.passed
              /\ IF Close(stock_data, last_index(stock_data)) < P(MIN_PRICE)
                 THEN ret.message.text = "Price < MIN_PRICE"
                 ELSE ret.message = [text |-> "50-day avg volume < MIN_VOLUME",
                                     values |-> <<0>>]

C15_ShortSeriesVolumeReason ==
    /\ op = "liquidity_filter"
    /\ Len(stock_data) = SMA_PERIOD - 1
    /\ ret.message.text = "50-day avg volume < MIN_VOLUME"

\* ---------------------------------------------------------------- C16
\* the sum of the volumes of the last 50 bars
VolumeOfLast50(s) ==
    SumOver([p \in index(s) |-> s[p + 1].Volume], Len(s) - 50, Len(s) - 1)

\* at least 50 bars, last close >= 3.00, mean volume of the last 50 < 300,000
LowVolume(s) ==
    /\ Len(s) >= 50
    /\ s[Len(s)].Close >= P(3)
    /\ VolumeOfLast50(s) < 300000 * 50

\* C16: on such a series run_screener returns (False, reason), the reason
\* naming the liquidity stage and the volume shortfall, without evaluating
\* the trend filter, and run_full_system stops after the screener.
C16_LowVolumeStopsAtLiquidity ==
    LowVolume(stock_data) =>
        /\ op = "run_screener" =>
              /\ ~ret.passed
              /\ ret.message.text = "SCREENER FAIL - Liquidity"
              /\ ret.message.parts =
                    << [text |-> "50-day avg volume < MIN_VOLUME",
                        values |-> <<VolumeOfLast50(stock_data)>>] >>
              /\ ret.calls = <<"liquidity_filter">>
        /\ op = "run_full_system" =>
              /\ ret.result = None
              /\ ret.calls = <<"run_screener">>

C16_SystemStoppedAtScreener ==
    /\ op = "run_full_system"
    /\ LowVolume(stock_data)
    /\ Len(stock_data) >= RISER_WINDOW
    /\ ret.calls = <<"run_screener">>

C16_ScreenerStoppedAtLiquidity ==
    /\ op = "run_screener"
    /\ LowVolume(stock_data)
    /\ VolumeOfLast50(stock_data) = 250000 * 50
    /\ ret.calls = <<"liquidity_filter">>

\* ---------------------------------------------------------------- C17
\* C17: calculate_trailing_stop scans the post-entry segment from offset
\* sma_period - 1 and reports only the first bar whose close is below the mean
\* of the sma_period closes ending at it, with days_held = offset + 1;
\* exit_signals never holds more than one entry and is empty when no scanned
\* bar closes below its SMA.
C17_FirstCrossingOnly ==
    (op = "calculate_trailing_stop" /\ ~is_error(ret)) =>
        LET e == args.entry_date
            k == args.sma_period
            closes == [p \in index(stock_data) |-> stock_data[p + 1].Close]
            below(p) == closes[p] * k < SumOver(closes, p - k + 1, p)
            hits == {p \in (e + k - 1) .. last_index(stock_data) : below(p)}
        IN /\ Len(ret.exit_signals) <= 1
           /\ (hits = {}) <=> (ret.exit_signals = <<>>)
           /\ hits # {} =>
                LET first == CHOOSE p \in hits : \A q \in hits : p <= q
                    offset == first - e
                IN /\ ret.exit_signals[1].exit_date = first
                   /\ ret.exit_signals[1].exit_price = closes[first]
                   /\ ret.exit_signals[1].days_held = offset + 1

C17_LaterCrossingsIgnored ==
    /\ op = "calculate_trailing_stop" /\ ~is_error(ret)
    /\ Len(ret.exit_signals) = 1
    /\ Cardinality(crossings(stock_data, args.entry_date, args.sma_period)) >= 2

C17_NoCrossing ==
    /\ op = "calculate_trailing_stop" /\ ~is_error(ret)
    /\ ret.exit_signals = <<>>
    /\ ret.days_since_entry >= args.sma_period

\* ---------------------------------------------------------------- C18
\* C18: riser fails with an insufficient-data reason iff len(series) <
\* window_days; otherwise it compares the last close with the close at index
\* len - window_days and passes iff (current - past) / past * 100 >=
\* min_increase, equality passing.
C18_RiserRule ==
    op = "riser" =>
        LET n == Len(stock_data)
            w == args.window_days
        IN /\ (ret.message = "Insufficient data") <=> (n < w)
           /\ n < w => ~ret.passed
           /\ n >= w =>
                LET current == stock_data[n].Close
                    past == stock_data[n - w + 1].Close
                IN /\ ret.current_price = current
                   /\ ret.price_ago = past
                   /\ ret.passed <=> ((current - past) * 100 >= args.min_increase * past)

C18_ExactIncreasePasses ==
    /\ op = "riser" /\ ret.passed
    /\ args.min_increase = RISER_MIN_INCREASE
    /\ (ret.current_price - ret.price_ago) * 100 = RISER_MIN_INCREASE * ret.price_ago

C18_TooShort ==
    /\ op = "riser" /\ ret.message = "Insufficient data"
    /\ Len(stock_data) = args.window_days - 1

\* ---------------------------------------------------------------- C19
\* C19: the peak is the earliest bar among the trailing 63 whose High is the
\* maximum High of those bars; the retracement low is the earliest bar
\* strictly after the peak whose Low is the minimum Low of the bars after the
\* peak; the stage fails with the no-consolidation reason iff the peak is the
\* last bar.
C19_EarliestPeakAndLow ==
    (op = "consolidation" /\ Len(stock_data) >= 63) =>
        LET n == Len(stock_data)
            trailing == (n - 63) .. (n - 1)
            pk == ret.info.peak_date
        IN /\ pk \in trailing
           /\ \A p \in trailing : High(stock_data, p) <= High(stock_data, pk)
           /\ \A p \in trailing : p < pk => High(stock_data, p) < High(stock_data, pk)
           /\ ret.info.peak_price = High(stock_data, pk)
           /\ (ret.message = "Peak is most recent day") <=> (pk = n - 1)
           /\ pk # n - 1 =>
                LET after == (pk + 1) .. (n - 1)
                    lw == ret.info.retracement_low_date
                IN /\ lw \in after
                   /\ \A p \in after : Low(stock_data, p) >= Low(stock_data, lw)
                   /\ \A p \in after : p < lw => Low(stock_data, p) > Low(stock_data, lw)
                   /\ ret.info.retracement_low = Low(stock_data, lw)

C19_TiedHighsAndLows ==
    /\ op = "consolidation"
    /\ ret.info.retracement_low_date # NoDate
    /\ \E p \in (ret.info.peak_date + 1) .. last_index(stock_data) :
          High(stock_data, p) = ret.info.peak_price
    /\ \E p \in (ret.info.retracement_low_date + 1) .. last_index(stock_data) :
          Low(stock_data, p) = ret.info.retracement_low

C19_PeakOnLastBar ==
    /\ op = "consolidation"
    /\ ret.message = "Peak is most recent day"
    /\ ret.info.peak_date = last_index(stock_data)

\* ---------------------------------------------------------------- C20
\* C20: calculate_position_size returns an error result, without raising,
\* whenever entry_price <= stop_loss_price, and execute_trade reports it as
\* status POSITION_ERROR rather than as a fault.
C20_NoRiskIsErrorResult ==
    /\ op = "calculate_position_size" =>
          /\ "raised" \notin DOMAIN ret
          /\ args.entry_price <= args.stop_loss_price =>
                ret = [error |-> "Entry must be > stop loss"]
    /\ op = "execute_trade" =>
          /\ "raised" \notin DOMAIN ret.plan
          /\ LET ed == args.entry_details
                 stop == calculate_stop_loss(stock_data, ATR_PERIOD,
                                             ed.entry_price, ed.entry_date)
             IN (/\ ed.entry_price > 0 /\ ed.entry_date # NoDate
                 /\ ~is_error(stop)
                 /\ ed.entry_price <= stop.stop_loss_price) =>
                    /\ ret.plan.status = "POSITION_ERROR"
                    /\ ret.plan.errors = <<"Entry must be > stop loss">>

C20_ZeroRiskRejected ==
    /\ op = "calculate_position_size"
    /\ args.entry_price > 0
    /\ args.entry_price = args.stop_loss_price
    /\ is_error(ret)

C20_StopAtEntryIsPositionError ==
    /\ op = "execute_trade"
    /\ ret.plan.status = "POSITION_ERROR"
    /\ args.entry_details.entry_price
          = Low(stock_data, args.entry_details.entry_date)

\* ---------------------------------------------------------------- C21
\* C21: on a series whose bars all have High >= Low, every defined value of
\* calculate_atr (in the code: every value from position period - 1 on) is
\* >= 0.
HighAboveLow(s) == \A p \in index(s) : High(s, p) >= Low(s, p)

C21_AtrNonNegative ==
    op = "calculate_atr" /\ HighAboveLow(stock_data) =>
        \A p \in index(stock_data) :
            /\ p >= args.period - 1 => ret[p] >= 0
            /\ ret[p] # NaN => ret[p] >= 0

C21_AtrPositive ==
    /\ op = "calculate_atr"
    /\ HighAboveLow(stock_data)
    /\ ret[last_index(stock_data)] > 0
    /\ \E p \in index(stock_data) : High(stock_data, p) > Low(stock_data, p)

C21_AtrZero ==
    /\ op = "calculate_atr"
    /\ HighAboveLow(stock_data)
    /\ ret[last_index(stock_data)] = 0

\* ---------------------------------------------------------------- C22
\* C22: the messages list of run_signaller holds exactly one entry per
\* evaluated stage, in the order RISER, CONSOLIDATION, ENTRY, each carrying
\* that stage's own message, and none for a stage that was not evaluated
\* (a stage was evaluated iff its result is in the returned record).
C22_OneMessagePerStage ==
    op = "run_signaller" =>
        LET evaluated ==
                <<"RISER">>
                \o (IF ret.consolidation_info # None THEN <<"CONSOLIDATION">> ELSE <<>>)
                \o (IF ret.entry_details # None THEN <<"ENTRY">> ELSE <<>>)
            own(stage) ==
                IF stage = "RISER"
                THEN riser(stock_data, RISER_WINDOW, RISER_MIN_INCREASE).message
                ELSE IF stage = "CONSOLIDATION"
                THEN consolidation(stock_data).message
                ELSE entry_trigger(stock_data, ret.consolidation_info).message
        IN /\ ret.riser_info # None
           /\ ret.entry_details # None => ret.consolidation_info # None
           /\ StagesRun = evaluated
           /\ \A i \in 1..Len(ret.messages) :
                 ret.messages[i] = <<evaluated[i], own(evaluated[i])>>

C22_TwoStagesTwoMessages ==
    /\ op = "run_signaller"
    /\ ret.consolidation_info # None
    /\ ret.entry_details = None
    /\ Len(ret.messages) = 2

C22_ThreeStagesThreeMessages ==
    /\ op = "run_signaller"
    /\ ret.entry_details # None
    /\ Len(ret.messages) = 3

\* ---------------------------------------------------------------- C23
\* C23: run_full_system invokes run_signaller only after run_screener passed
\* and execute_trade only after run_signaller returned BUY; after a screener
\* failure or a signal other than BUY no later phase runs.
C23_PhasesGated ==
    op = "run_full_system" =>
        LET screener == run_screener(stock_data)
            signal == run_signaller(stock_data)
        IN /\ Len(ret.calls) >= 1 /\ ret.calls[1] = "run_screener"
           /\ InSeq("run_signaller", ret.calls) =>
                 screener.passed /\ ret.calls[2] = "run_signaller"
           /\ InSeq("execute_trade", ret.calls) =>
                 /\ screener.passed /\ signal.signal = "BUY"
                 /\ ret.calls = <<"run_screener", "run_signaller", "execute_trade">>
           /\ ~screener.passed =>
                 ret.calls = <<"run_screener">> /\ ret.result = None
           /\ (screener.passed /\ signal.signal # "BUY") =>
                 ret.calls = <<"run_screener", "run_signaller">> /\ ret.result = signal

C23_SignallerRanAfterScreenerPass ==
    /\ op = "run_full_system"
    /\ run_screener(stock_data).passed
    /\ ret.calls = <<"run_screener", "run_signaller">>
    /\ ret.result.signal # "BUY"

C23_ScreenerFailureEndsRun ==
    /\ op = "run_full_system"
    /\ ~run_screener(stock_data).passed
    /\ Len(stock_data) >= SMA_PERIOD
    /\ ret.result = None

\* ---------------------------------------------------------------- C24
\* C24: signaller.consolidation and trading_strategy.consolidation return
\* the same passed verdict on every series.
C24_SameVerdict ==
    op = "trading_strategy.consolidation" =>
        ret.passed = consolidation(stock_data).passed

\* the number of bars after the retracement low that signaller.consolidation
\* found
C24_BarsAfterLow ==
    last_index(stock_data) - consolidation(stock_data).info.retracement_low_date

\* The code: the verdicts differ exactly on the series past the retracement
\* cap whose low lies 3 bars before the last (trading_strategy.py fails, too
\* short) or 40 bars before it (signaller.py fails, too long).
C24_CodeDiffersAtDurationEdges ==
    op = "trading_strategy.consolidation" =>
        LET c == consolidation(stock_data)
        IN /\ (c.passed /\ ~ret.passed) <=>
                 (PastRetracementCap(c) /\ C24_BarsAfterLow = CONSOLIDATION_MIN_DAYS - 1)
           /\ (~c.passed /\ ret.passed) <=>
                 (PastRetracementCap(c) /\ C24_BarsAfterLow = CONSOLIDATION_MAX_DAYS)

C24_LowThreeBackDisagree ==
    /\ op = "trading_strategy.consolidation"
    /\ C24_BarsAfterLow = CONSOLIDATION_MIN_DAYS - 1
    /\ consolidation(stock_data).passed
    /\ ~ret.passed

C24_LowFortyBackDisagree ==
    /\ op = "trading_strategy.consolidation"
    /\ C24_BarsAfterLow = CONSOLIDATION_MAX_DAYS
    /\ ~consolidation(stock_data).passed
    /\ ret.passed

\* ---------------------------------------------------------------- C25
\* C25: trading_strategy.entry_trigger, given positive breakout_level and
\* stop_loss_level and a last High not above breakout_level * 1.02, returns
\* without raising a not-triggered result with the current close, and
\* trading_strategy.signaller then ends with final_signal HOLD and
\* recommended_action MONITOR.
is_raised(r) == "raised" \in DOMAIN r

C25_NoFire(consolidation_info) ==
    /\ ~IsEmpty(consolidation_info)
    /\ get(consolidation_info, "breakout_level", 0) > 0
    /\ get(consolidation_info, "stop_loss_level", 0) > 0
    /\ High(stock_data, last_index(stock_data)) * 100
          <= get(consolidation_info, "breakout_level", 0) * 102

\* the series on which trading_strategy.signaller reaches its entry stage
C25_ReachesEntryStage ==
    /\ Len(stock_data) >= 63
    /\ the_screener(stock_data).passed
    /\ ts_riser(stock_data, 63, 30).passed
    /\ ts_consolidation(stock_data).passed

C25_NoFireIsHold ==
    /\ (op = "trading_strategy.entry_trigger" /\ C25_NoFire(args.consolidation_info)) =>
          /\ ~is_raised(ret)
          /\ ~ret.triggered
          /\ ret.entry_price = Close(stock_data, last_index(stock_data))
    /\ (op = "trading_strategy.signaller" /\ C25_ReachesEntryStage
          /\ C25_NoFire(ts_consolidation(stock_data).info)) =>
          /\ ~is_raised(ret)
          /\ ret.final_signal = "HOLD"
          /\ ret.recommended_action = "MONITOR"

\* The code: the no-breakout branch raises UnboundLocalError, and so does
\* signaller whenever it reaches the entry stage; signaller never returns
\* HOLD or BUY.
C25_CodeNoFireRaises ==
    /\ (op = "trading_strategy.entry_trigger" /\ C25_NoFire(args.consolidation_info)) =>
          ret = Raise("UnboundLocalError")
    /\ op = "trading_strategy.signaller" =>
          /\ C25_ReachesEntryStage <=> is_raised(ret)
          /\ is_raised(ret) => ret = Raise("UnboundLocalError")
          /\ ~is_raised(ret) => ret.final_signal \notin {"HOLD", "BUY"}

C25_EntryTriggerRaised ==
    /\ op = "trading_strategy.entry_trigger"
    /\ C25_NoFire(args.consolidation_info)
    /\ is_raised(ret)

C25_SignallerRaised ==
    /\ op = "trading_strategy.signaller"
    /\ C25_ReachesEntryStage
    /\ is_raised(ret)

\* ---------------------------------------------------------------- C26
\* C26: whenever signaller.consolidation computes a range, its breakout_level
\* is consolidation_high and is >= the High of every bar from the retracement
\* low to the end of the series, the last bar included.
C26_BreakoutCoversSegment ==
    (op = "consolidation" /\ PastRetracementCap(ret)) =>
        /\ ret.info.breakout_level = ret.info.consolidation_high
        /\ \A p \in ret.info.retracement_low_date .. last_index(stock_data) :
              ret.info.breakout_level >= High(stock_data, p)
        /\ ~breakout_fires(High(stock_data, last_index(stock_data)),
                           ret.info.breakout_level)

C26_LastBarIsTheHigh ==
    /\ op = "consolidation"
    /\ ret.passed
    /\ ret.info.consolidation_high_date = last_index(stock_data)
    /\ ret.info.retracement_low_date < last_index(stock_data)
    /\ \A p \in ret.info.retracement_low_date .. (last_index(stock_data) - 1) :
          High(stock_data, p) < High(stock_data, last_index(stock_data))

\* ---------------------------------------------------------------- C27
\* C27: on a series of positive prices with Low <= Close <= High in every
\* bar, a consolidation past the length, peak-position, retracement-cap and
\* duration checks passes: no range violation, every close in the range, and
\* the range-violation and weak-close reasons are never produced.
WellFormed(s) ==
    \A p \in index(s) : 0 < Low(s, p) /\ Low(s, p) <= Close(s, p)
                        /\ Close(s, p) <= High(s, p)

C27_DurationChecksPassed(r) ==
    /\ PastRetracementCap(r)
    /\ r.info.days_in_consolidation >= CONSOLIDATION_MIN_DAYS
    /\ r.info.days_in_consolidation <= CONSOLIDATION_MAX_DAYS

C27_RangeChecksNeverFail ==
    (op = "consolidation" /\ WellFormed(stock_data)) =>
        /\ ret.message \notin {"Range violations", "Closes within range"}
        /\ C27_DurationChecksPassed(ret) =>
              /\ ret.passed
              /\ ret.info.closes_in_range = ret.info.total_days_in_range
              /\ range_violations(stock_data, ret.info.retracement_low_date,
                                  last_index(stock_data),
                                  ret.info.consolidation_high,
                                  ret.info.consolidation_low) = {}

C27_PassedAfterDurationChecks ==
    /\ op = "consolidation"
    /\ WellFormed(stock_data)
    /\ C27_DurationChecksPassed(ret)
    /\ ret.passed
    /\ ret.info.consolidation_high > ret.info.consolidation_low

\* ---------------------------------------------------------------- C28
\* C28 as stated: whenever execute_trade is called with the entry_details
\* entry_trigger produced on the same series, calculate_trailing_stop
\* returns the insufficient-post-entry-data error, it is recorded as a
\* warning, and the plan holds no trailing-exit evaluation.
FromEntryTrigger ==
    /\ op = "execute_trade"
    /\ "breakout_level" \in DOMAIN args.entry_details
    /\ args.entry_details =
          entry_trigger(stock_data, args.consolidation_info).entry_details

C28_TrailingError ==
    calculate_trailing_stop(stock_data, args.entry_details.entry_price,
                            args.entry_details.entry_date, TRAILING_SMA_PERIOD)

C28_NoTrailingExit ==
    \/ "trailing_stop" \notin DOMAIN ret.plan
    \/ is_error(ret.plan.trailing_stop)

C28_TrailingErrorWarned ==
    FromEntryTrigger =>
        /\ args.entry_details.entry_date = last_index(stock_data)
        /\ C28_TrailingError = [error |-> "Need days post-entry"]
        /\ InSeq(C28_TrailingError.error, ret.plan.warnings)
        /\ C28_NoTrailingExit

\* C28 amended: the warning is recorded whenever the stop-loss and
\* position-sizing steps succeeded; when one of them failed the plan ends
\* there, calculate_trailing_stop is not called and nothing is recorded of it.
C28_TrailingErrorWarnedWhenReached ==
    FromEntryTrigger =>
        /\ args.entry_details.entry_date = last_index(stock_data)
        /\ C28_TrailingError = [error |-> "Need days post-entry"]
        /\ C28_NoTrailingExit
        /\ IF ret.plan.status \in {"STOP_LOSS_ERROR", "POSITION_ERROR"}
           THEN /\ ~InSeq("calculate_trailing_stop", ret.calls)
                /\ ~InSeq(C28_TrailingError.error, ret.plan.warnings)
                /\ "trailing_stop" \notin DOMAIN ret.plan
           ELSE /\ InSeq("calculate_trailing_stop", ret.calls)
                /\ InSeq(C28_TrailingError.error, ret.plan.warnings)
                /\ ret.plan.trailing_stop = C28_TrailingError

C28_WarnedOnEntryBar ==
    /\ FromEntryTrigger
    /\ ret.plan.status = "READY"
    /\ InSeq(C28_TrailingError.error, ret.plan.warnings)

C28_PositionErrorNoWarning ==
    /\ FromEntryTrigger
    /\ ret.plan.status = "POSITION_ERROR"
    /\ ~InSeq(C28_TrailingError.error, ret.plan.warnings)

\* ---------------------------------------------------------------- C29
\* C29: in every descriptor signaller.consolidation returns after the
\* retracement step, peak_index < retracement_low_index <= last_index, both
\* in the trailing 63 bars, and once the range is computed retracement_low =
\* consolidation_low <= consolidation_high <= peak_price.
C29_DescriptorOrdered ==
    (op = "consolidation" /\ ret.info.retracement_low_date # NoDate) =>
        /\ ret.info.peak_date < ret.info.retracement_low_date
        /\ ret.info.retracement_low_date <= last_index(stock_data)
        /\ ret.info.peak_date >= Len(stock_data) - RISER_WINDOW
        /\ PastRetracementCap(ret) =>
              /\ ret.info.consolidation_low = ret.info.retracement_low
              /\ ret.info.consolidation_low <= ret.info.consolidation_high
              /\ ret.info.consolidation_high <= ret.info.peak_price

C29_RangeBelowPeak ==
    /\ op = "consolidation"
    /\ PastRetracementCap(ret)
    /\ ret.info.peak_date = Len(stock_data) - RISER_WINDOW
    /\ ret.info.consolidation_low < ret.info.consolidation_high
    /\ ret.info.consolidation_high < ret.info.peak_price

\* ---------------------------------------------------------------- C30
\* C30: in every successful result of calculate_trailing_stop,
\* should_exit_now implies a non-empty exit_signals, and the recorded exit
\* bar is never after the last bar; a recorded exit does not imply
\* should_exit_now (C30_ExitedThenRecovered is reachable).
C30_ExitNowImpliesSignal ==
    (op = "calculate_trailing_stop" /\ ~is_error(ret)) =>
        /\ ret.should_exit_now => ret.exit_signals # <<>>
        /\ Len(ret.exit_signals) <= 1
        /\ \A i \in 1..Len(ret.exit_signals) :
              /\ ret.exit_signals[i].exit_date <= last_index(stock_data)
              /\ ret.exit_signals[i].exit_date >= args.entry_date

C30_ExitedThenRecovered ==
    /\ op = "calculate_trailing_stop"
    /\ ~is_error(ret)
    /\ ret.exit_signals # <<>>
    /\ ret.exit_signals[1].exit_date < last_index(stock_data)
    /\ ~ret.should_exit_now

C30_ExitOnLastBar ==
    /\ op = "calculate_trailing_stop"
    /\ ~is_error(ret)
    /\ ret.should_exit_now
    /\ ret.exit_signals # <<>>
    /\ ret.exit_signals[1].exit_date = last_index(stock_data)

====
